---- MODULE Spec2Model ----
(***************************************************************************)
(* The creator-analysis backend: provider selection, the four-way market   *)
(* research fan-out with its canned fallback, the Fame Score and the       *)
(* /api/ai-agent-analysis request handler; then, each on its own, the      *)
(* personalization functions, the product catalog, the agent ids, the      *)
(* response parser and the opportunity filter, the purchase helpers, the   *)
(* payment webhook, the user-analytics handlers and the client hook.       *)
(*                                                                         *)
(* Numbers: engagementRate is a fraction in the code; here it is carried   *)
(* in hundredths (engagementRate = engagementPct / 100) and every score is *)
(* computed exactly as a rational over a common denominator, then rounded  *)
(* as Math.round does (half up).                                           *)
(***************************************************************************)
EXTENDS Integers, Sequences, FiniteSets, TLC

VARIABLES
    env,            \* the configured API-key environment variables
    pc,             \* position of the request handler
    request,        \* req.body of the request being handled
    agentId,        \* the agent id generated for the request
    fingerprint,    \* the personality fingerprint generated for the request
    calls,          \* per research topic: state of its provider call
    values,         \* Promise.all's array of fulfilled values
    issued,         \* per research topic: number of provider calls issued
    marketResearch, \* what compileMarketResearchData returned
    analysis,       \* the AnalysisResult assembled by the handler
    rendered,       \* outcome of the PDF renderer
    responses,      \* the HTTP responses sent for the request
    providerList,   \* selectBestProvider: its argument
    selected,       \* selectBestProvider: its result
    profile,        \* calculateUniqueFameScore: its profile argument
    market,         \* calculateUniqueFameScore: its marketResearch argument
    personality,    \* calculateUniqueFameScore: its personalityFingerprint argument
    fameScore,      \* calculateUniqueFameScore: its result
    called,         \* the function that is called, with its arguments
    returned,       \* what the call returned
    catalog,        \* PRODUCT_VIABILITY_DATABASE
    firstCall,      \* the first call of calculateCommercialViability
    agentIds,       \* the agent ids generateUniqueAgentId has returned
    supabase,       \* the Supabase project: whether it is configured, its rows
    attempt,        \* the loop counter of createPurchase and of the webhook
    requests,       \* the HTTP requests issued, with what became of each
    userDatabase,   \* userDatabase: quiz data by user id
    downloadDatabase, \* downloadDatabase: download records by user id
    accepted,       \* per user id: the download captures answered with success
    hookState       \* useAIAgentAnalysis: data, loading and error

vars ==
    <<env, pc, request, agentId, fingerprint, calls, values, issued,
      marketResearch, analysis, rendered, responses, providerList, selected,
      profile, market, personality, fameScore, called, returned,
      catalog, firstCall, agentIds, supabase, attempt, requests,
      userDatabase, downloadDatabase, accepted, hookState>>

handlerVars ==
    <<env, request, agentId, fingerprint, calls, values, issued,
      marketResearch, analysis, rendered, responses>>

selectVars ==
    <<providerList, selected>>

scoreVars ==
    <<profile, market, personality, fameScore>>

\* The variables of the parts other than the handler, the provider choice
\* and the Fame Score.
otherVars ==
    <<called, returned, catalog, firstCall, agentIds>>

\* The variables of the Supabase helpers, the payment webhook, the analytics
\* stores and the client hook.
storeVars ==
    <<supabase, attempt, requests, userDatabase, downloadDatabase, accepted,
      hookState>>

\* ------------------------------------------------------------------ bounds

\* Provider response texts 1..MaxResponse are the ones a call may return.
MaxResponse ==
    4

\* Longest provider list handed to selectBestProvider.
MaxProviders ==
    3

\* Input grids of the Fame Score are cut into MaxGrid equal steps.
MaxGrid ==
    4

\* The longest text, in pieces, given to parseAIResponse on its own.
MaxText ==
    4

\* The most download records kept for one user.
MaxRecords ==
    2

\* The most analyze calls made on one hook.
MaxCalls ==
    4

\* Longest download list handed to generateCommercialReport.
MaxDownloads ==
    2

\* Number of agent ids generated in a run of generateUniqueAgentId alone.
MaxIds ==
    3

\* ----------------------------------------------------------------- helpers

MathMin(a, b) ==
    IF a <= b THEN a ELSE b

MathMax(a, b) ==
    IF a >= b THEN a ELSE b

\* Math.round of the rational num/den (den > 0): floor(x + 1/2).
MathRound(num, den) ==
    (2 * num + den) \div (2 * den)

\* Array.prototype.slice(0, n)
Slice(s, n) ==
    SubSeq(s, 1, MathMin(n, Len(s)))

\* --------------------------------------------------------------- providers

OpenAI ==
    [name |-> "openai", apiKey |-> "OPENAI_API_KEY", model |-> "gpt-4-turbo"]

Anthropic ==
    [name |-> "anthropic", apiKey |-> "ANTHROPIC_API_KEY", model |-> "claude-3-opus"]

Google ==
    [name |-> "google", apiKey |-> "GOOGLE_API_KEY", model |-> "gemini-1.5-pro"]

\* A provider no branch of the code knows: it only ever reaches
\* selectBestProvider through a caller-built list.
OtherProvider ==
    [name |-> "mistral", apiKey |-> "MISTRAL_API_KEY", model |-> "mistral-large"]

EnvKeys ==
    {"OPENAI_API_KEY", "ANTHROPIC_API_KEY", "GOOGLE_API_KEY"}

\* getAvailableProviders(): one push per configured key, in this order.
getAvailableProviders(e) ==
    (IF "OPENAI_API_KEY" \in e THEN <<OpenAI>> ELSE <<>>)
    \o (IF "ANTHROPIC_API_KEY" \in e THEN <<Anthropic>> ELSE <<>>)
    \o (IF "GOOGLE_API_KEY" \in e THEN <<Google>> ELSE <<>>)

preferredOrder ==
    <<"openai", "anthropic", "google">>

\* providers.find((p) => p.name === name): the index of the first match, 0
\* when there is none.
Find(providers, name) ==
    LET hits == {i \in 1..Len(providers) : providers[i].name = name}
    IN  IF hits = {} THEN 0
        ELSE CHOOSE i \in hits : \A j \in hits : i <= j

NoProviderError ==
    [threw |-> "No AI providers configured. Set OPENAI_API_KEY, ANTHROPIC_API_KEY, or GOOGLE_API_KEY"]

RECURSIVE PreferredFrom(_, _)
\* The for loop over preferredOrder from index k on, then providers[0].
PreferredFrom(providers, k) ==
    IF k > Len(preferredOrder) THEN providers[1]
    ELSE IF Find(providers, preferredOrder[k]) # 0
         THEN providers[Find(providers, preferredOrder[k])]
         ELSE PreferredFrom(providers, k + 1)

\* A faulty selectBestProvider: the loop stops after the first preferred name.
selectBestProviderFirstOnly(providers) ==
    IF Len(providers) = 0 THEN NoProviderError
    ELSE IF Find(providers, preferredOrder[1]) # 0
         THEN providers[Find(providers, preferredOrder[1])]
         ELSE providers[1]

selectBestProvider(providers) ==
    IF Len(providers) = 0 THEN NoProviderError
    ELSE PreferredFrom(providers, 1)

\* ---------------------------------------------------- provider response text

(***************************************************************************)
(* A response text is a sequence of tokens: "txt" is prose without braces, *)
(* "{" and "}" are the braces, and a field token is one "key": value pair  *)
(* of a JSON object, its value given by the tables below.                  *)
(***************************************************************************)
FieldTokens ==
    {"trends:[A,B]", "trends:[B,C]", "trends:[]",
     "insights:[I]", "insights:[]", "insights:str",
     "opportunities:[O]", "opportunities:[]", "opportunities:[null]",
     "top_creators:[C]", "top_creators:[]", "top_creators:[null]"}

FieldKey(tok) ==
    CASE tok \in {"trends:[A,B]", "trends:[B,C]", "trends:[]"} -> "trends"
      [] tok \in {"insights:[I]", "insights:[]", "insights:str"} -> "insights"
      [] tok \in {"opportunities:[O]", "opportunities:[]", "opportunities:[null]"}
            -> "opportunities"
      [] OTHER -> "top_creators"

\* Array.isArray of the field's value.
FieldIsArray(tok) ==
    tok \in FieldTokens \ {"insights:str"}

\* The elements of the field's array value.
FieldItems(tok) ==
    CASE tok = "trends:[A,B]" -> <<"short-form clips are rising", "authenticity wins">>
      [] tok = "trends:[B,C]" -> <<"authenticity wins", "Trend C">>
      [] tok = "insights:[I]" -> <<"Insight I">>
      [] tok = "opportunities:[O]" -> <<"O">>
      [] tok = "opportunities:[null]" -> <<"null">>
      [] tok = "top_creators:[C]" -> <<"C">>
      [] tok = "top_creators:[null]" -> <<"null">>
      [] OTHER -> <<>>

\* The texts a provider call may return.
ResponseText(r) ==
    CASE r = 1 -> <<"txt">>
      [] r = 2 -> <<"txt", "{", "trends:[A,B]", "insights:[I]", "opportunities:[O]",
                    "top_creators:[C]", "}", "txt">>
      [] r = 3 -> <<"{", "trends:[]", "insights:[]", "opportunities:[]",
                    "top_creators:[]", "}">>
      [] r = 4 -> <<"{", "trends:[B,C]", "insights:str", "opportunities:[null]",
                    "top_creators:[null]", "}">>
      [] r = 5 -> <<"{", "}", "txt", "{", "trends:[A,B]", "}">>
      [] OTHER -> <<"}", "txt", "{", "trends:[A,B]">>

Responses ==
    1..MaxResponse

Keys ==
    {"trends", "insights", "opportunities", "top_creators"}

Absent ==
    ""

\* response.match(/\{[\s\S]*\}/): from the first "{" to the last "}" after
\* it; the empty sequence when there is no match.
MatchBraces(text) ==
    LET opens == {i \in 1..Len(text) : text[i] = "{"}
    IN  IF opens = {} THEN <<>>
        ELSE LET first == CHOOSE i \in opens : \A j \in opens : i <= j
                 closes == {i \in first + 1..Len(text) : text[i] = "}"}
             IN  IF closes = {} THEN <<>>
                 ELSE SubSeq(text, first,
                             CHOOSE i \in closes : \A j \in closes : j <= i)

\* Whether JSON.parse accepts the span: one object whose members are fields.
JSONValid(span) ==
    /\ Len(span) >= 2
    /\ span[1] = "{"
    /\ span[Len(span)] = "}"
    /\ \A i \in 2..Len(span) - 1 : span[i] \in FieldTokens

\* JSON.parse of a valid span: each key's value is its last member's.
JSONParse(span) ==
    [k \in Keys |->
        LET at == {i \in 2..Len(span) - 1 : FieldKey(span[i]) = k}
        IN  IF at = {} THEN Absent
            ELSE span[CHOOSE i \in at : \A j \in at : j <= i]]

\* A faulty catch block: only the matched span is kept, not the response.
parseAIResponseKeepsSpan(response) ==
    LET span == MatchBraces(response)
    IN  IF span # <<>> /\ JSONValid(span)
        THEN [structured |-> TRUE, raw_analysis |-> <<>>,
              fields |-> JSONParse(span)]
        ELSE [structured |-> FALSE, raw_analysis |-> span,
              fields |-> [k \in Keys |-> Absent]]

parseAIResponse(response) ==
    LET span == MatchBraces(response)
    IN  IF span # <<>> /\ JSONValid(span)
        THEN [structured |-> TRUE, raw_analysis |-> <<>>,
              fields |-> JSONParse(span)]
        ELSE [structured |-> FALSE, raw_analysis |-> response,
              fields |-> [k \in Keys |-> Absent]]

\* Array.isArray(data.key)
IsArrayField(data, key) ==
    data.fields[key] # Absent /\ FieldIsArray(data.fields[key])

\* ------------------------------------------------- market research compiler

Topics ==
    {"position", "monetization", "competitors", "trends"}

\* The members of the objects a structured response lists; "" and 0 stand
\* for a member that is missing (both are falsy in the code's || defaults).
JsonCreator(item) ==
    [name |-> "Creator C", followers |-> 80000, engagement |-> 0, strategy |-> ""]

JsonOpportunity(item) ==
    [type |-> "Online courses", earnings |-> "", requirementsIsArray |-> FALSE,
     requirements |-> <<>>]

RECURSIVE AddAll(_, _)
\* trends.add(String(t)) for each t of items: a Set keeps insertion order
\* and drops repeats.
AddAll(set, items) ==
    IF items = <<>> THEN set
    ELSE AddAll(IF \E i \in 1..Len(set) : set[i] = Head(items)
                THEN set ELSE Append(set, Head(items)),
                Tail(items))

DefaultTrends ==
    <<"Short-form vertical video content leading engagement",
      "AI-powered content personalization gaining traction",
      "Live streaming for community building",
      "Micro-moments content strategy">>

extractTrends(marketData, trendData) ==
    LET fromMarket ==
            IF IsArrayField(marketData, "trends")
            THEN AddAll(<<>>, FieldItems(marketData.fields["trends"]))
            ELSE <<>>
        trends ==
            IF IsArrayField(trendData, "trends")
            THEN AddAll(fromMarket, FieldItems(trendData.fields["trends"]))
            ELSE fromMarket
    IN  IF Len(trends) = 0 THEN DefaultTrends ELSE trends

\* avgEngagement is carried in tenths (8.5 is 85).
DefaultCompetitors ==
    <<[name |-> "Market Leader 1", followers |-> 500000, avgEngagement |-> 85,
       monetizationStrategy |-> "Brand partnerships + Affiliate marketing"],
      [name |-> "Market Leader 2", followers |-> 300000, avgEngagement |-> 72,
       monetizationStrategy |-> "Course sales + Sponsorships"]>>

\* Reading a member of a null array element raises a TypeError.
MapThrows(data, key, n) ==
    /\ IsArrayField(data, key)
    /\ \E i \in 1..MathMin(n, Len(FieldItems(data.fields[key]))) :
           FieldItems(data.fields[key])[i] = "null"

extractCompetitors(competitorData) ==
    IF IsArrayField(competitorData, "top_creators")
    THEN LET items == Slice(FieldItems(competitorData.fields["top_creators"]), 5)
         IN  [i \in 1..Len(items) |->
                LET c == JsonCreator(items[i])
                IN  [name |-> IF c.name # "" THEN c.name ELSE "Top Creator",
                     followers |-> IF c.followers # 0 THEN c.followers ELSE 100000,
                     avgEngagement |-> IF c.engagement # 0 THEN c.engagement ELSE 50,
                     monetizationStrategy |->
                        IF c.strategy # "" THEN c.strategy
                        ELSE "Brand partnerships + Sponsorships"]]
    ELSE DefaultCompetitors

extractMonetizationOpportunities(monetizationData, followers) ==
    IF IsArrayField(monetizationData, "opportunities")
    THEN LET items == FieldItems(monetizationData.fields["opportunities"])
         IN  [i \in 1..Len(items) |->
                LET o == JsonOpportunity(items[i])
                IN  [type |-> IF o.type # "" THEN o.type ELSE "Unknown",
                     estimatedEarnings |->
                        IF o.earnings # "" THEN o.earnings
                        ELSE "Depends on engagement",
                     requirements |->
                        IF o.requirementsIsArray THEN o.requirements ELSE <<>>]]
    ELSE <<[type |-> "Brand Partnerships",
            estimatedEarnings |->
                "$" \o ToString(MathMin(500, followers \div 20)) \o "-$"
                \o ToString(MathMin(2000, followers \div 5)) \o " per post",
            requirements |-> <<"Minimum 10k followers", "Consistent posting",
                               "2-5% engagement rate">>],
           [type |-> "Affiliate Marketing",
            estimatedEarnings |-> "$200-1000 per month",
            requirements |-> <<"Engaged audience", "Relevant products",
                               "Trust built with audience">>],
           [type |-> "Sponsorships",
            estimatedEarnings |->
                "$" \o ToString(MathMin(1000, followers \div 10)) \o "-$"
                \o ToString(MathMin(5000, followers \div 2)) \o " per month",
            requirements |-> <<"50k+ followers preferred", "Niche relevance",
                               "Professional media kit">>]>>

DefaultInsights ==
    <<"Market demand is growing 25% YoY in this niche",
      "Audience retention is more important than raw follower count",
      "Authentic content outperforms highly produced content",
      "Community engagement drives algorithmic reach",
      "Cross-platform presence increases monetization opportunities">>

extractInsights(data) ==
    IF IsArrayField(data, "insights")
    THEN FieldItems(data.fields["insights"])
    ELSE DefaultInsights

\* The object the catch block of compileMarketResearchData returns.
FallbackMarketResearch ==
    [trends |-> <<"Short-form video content is dominating engagement",
                  "Authenticity over production quality resonates better",
                  "Community engagement drives algorithmic visibility">>,
     competitorAnalysis |->
        [topCompetitors |->
            <<[name |-> "Market Leader 1", followers |-> 500000,
               avgEngagement |-> 85,
               monetizationStrategy |-> "Brand partnerships + Affiliate marketing"]>>],
     monetizationOpportunities |->
        <<[type |-> "Brand Partnerships",
           estimatedEarnings |-> "$500-2000 per post",
           requirements |-> <<"Minimum 10k followers", "2-5% engagement rate">>]>>,
     industryInsights |-> <<"Creator economy growing at 20% YoY",
                            "Niche creators outperform generalists",
                            "Community building is key to retention">>]

\* A faulty catch block: the error is passed on to the caller.
CompileCatchRethrow ==
    [threw |-> "research failed"]

\* A faulty catch block: the fallback is built from the extractors' defaults.
CompileCatchDefaults ==
    [FallbackMarketResearch EXCEPT !.trends = DefaultTrends]

\* compileMarketResearchData, catch block: what the compiler returns once
\* anything inside its try block has thrown.
CompileCatch ==
    FallbackMarketResearch

\* Whether an extractor raises inside the try block: a null element in the
\* first five top_creators or anywhere in opportunities.
ExtractThrows(texts) ==
    LET monetizationParsed == parseAIResponse(texts["monetization"])
        competitorParsed == parseAIResponse(texts["competitors"])
    IN  \/ MapThrows(competitorParsed, "top_creators", 5)
        \/ MapThrows(monetizationParsed, "opportunities",
                     Len(FieldItems(monetizationParsed.fields["opportunities"])))

\* The object the try block builds from the four parsed responses.
CompileExtract(texts, followers) ==
    LET marketParsed == parseAIResponse(texts["position"])
        monetizationParsed == parseAIResponse(texts["monetization"])
        competitorParsed == parseAIResponse(texts["competitors"])
        trendParsed == parseAIResponse(texts["trends"])
    IN  [trends |-> extractTrends(marketParsed, trendParsed),
         competitorAnalysis |->
            [topCompetitors |-> extractCompetitors(competitorParsed)],
         monetizationOpportunities |->
            extractMonetizationOpportunities(monetizationParsed, followers),
         industryInsights |-> extractInsights(marketParsed)]

\* A faulty compiler: the extractors run outside the try block, so what they
\* raise reaches the caller.
CompileTryUncaught(texts, followers) ==
    IF ExtractThrows(texts) THEN [threw |-> "Cannot read properties of null"]
    ELSE CompileExtract(texts, followers)

\* compileMarketResearchData, try block after the await: texts maps each
\* topic to the text its call returned.
CompileTry(texts, followers) ==
    IF ExtractThrows(texts) THEN CompileCatch
    ELSE CompileExtract(texts, followers)

\* ------------------------------------------------------------ personalization

\* A rational number num/den with den > 0.
Rat(num, den) ==
    [num |-> num, den |-> den]

\* x >= n for a rational x and an integer n.
RatGE(x, n) ==
    x.num >= n * x.den

\* A faulty clamp: the upper limit of 10 is left out.
ClampFrom1(num, den) ==
    Rat(MathMax(den, num), den)

\* Math.min(10, Math.max(1, num/den))
Clamp1to10(num, den) ==
    Rat(MathMin(10 * den, MathMax(den, num)), den)

\* A faulty threshold test: a creator with exactly 50,000 or exactly 100,000
\* followers stays in the tier below.
calculateAdaptationFactorsExclusive(p) ==
    [riskTolerance |-> Clamp1to10(1000 * p.engagementPct + p.followers, 150000),
     timeToMonetize |->
        IF p.followers > 100000 THEN "immediate"
        ELSE IF p.followers > 50000 THEN "short-term"
        ELSE "long-term",
     contentQuality |-> Clamp1to10(5 * p.engagementPct, 100),
     communityEngagement |-> Clamp1to10(3 * p.engagementPct + 300, 100)]

\* A faulty community assessment: the base of 3 points is taken as 5.
calculateAdaptationFactorsBase5(p) ==
    [riskTolerance |-> Clamp1to10(1000 * p.engagementPct + p.followers, 150000),
     timeToMonetize |->
        IF p.followers >= 100000 THEN "immediate"
        ELSE IF p.followers >= 50000 THEN "short-term"
        ELSE "long-term",
     contentQuality |-> Clamp1to10(5 * p.engagementPct, 100),
     communityEngagement |-> Clamp1to10(3 * p.engagementPct + 500, 100)]

\* engagementRate is engagementPct / 100, so
\*   (engagementRate * 2 + followers / 50000) / 3
\*                        = (1000 * engagementPct + followers) / 150000.
calculateAdaptationFactors(p) ==
    [riskTolerance |-> Clamp1to10(1000 * p.engagementPct + p.followers, 150000),
     timeToMonetize |->
        IF p.followers >= 100000 THEN "immediate"
        ELSE IF p.followers >= 50000 THEN "short-term"
        ELSE "long-term",
     contentQuality |-> Clamp1to10(5 * p.engagementPct, 100),
     communityEngagement |-> Clamp1to10(3 * p.engagementPct + 300, 100)]

\* String.prototype.includes(word), case-sensitive, over the strings the
\* model uses.
Includes(str, word) ==
    CASE word = "short-form" -> str = "short-form clips are rising"
      [] word = "authenticity" -> str = "authenticity wins"
      [] word = "engagement" ->
            str \in {"low engagement", "engagement and monetization"}
      [] word = "monetization" ->
            str \in {"monetization", "engagement and monetization"}
      [] word = "failed to fetch" -> str = "typeerror: failed to fetch"
      [] word = "network" -> str = "network request failed"
      [] word = "follower" -> str \in {"K+ followers", "followers"}
      [] OTHER -> FALSE

\* String.prototype.toLowerCase() over the challenge texts the model uses.
ToLowerCase(str) ==
    CASE str = "Low Engagement" -> "low engagement"
      [] str = "Engagement and Monetization" -> "engagement and monetization"
      [] str = "Monetization" -> "monetization"
      [] str = "TypeError: Failed to fetch" -> "typeerror: failed to fetch"
      [] str = "Network request failed" -> "network request failed"
      [] OTHER -> str

TrendRecommendation(trend) ==
    IF Includes(trend, "short-form")
    THEN "Capitalize on short-form video trend: " \o trend
         \o ". Increase video content frequency by 30%."
    ELSE IF Includes(trend, "authenticity")
    THEN "Lean into authentic storytelling: " \o trend
         \o ". Share behind-the-scenes content more frequently."
    ELSE "Trend alert: " \o trend
         \o ". Adapt your content calendar to include trending formats."

\* A faulty rule table: the monetization rule is an else-branch of the
\* engagement rule, so it is skipped when both challenges are mentioned.
generatePersonalizedRecommendationsElseIf(mr, p, factors) ==
    (IF RatGE(factors.communityEngagement, 7)
     THEN <<"Your community engagement is strong. Leverage this to launch exclusive membership programs or courses.",
            "Consider starting a community Discord or Telegram for deeper connections - monetize with premium tier access.">>
     ELSE <<>>)
    \o (IF p.followers < 50000 /\ RatGE(factors.contentQuality, 6)
        THEN <<"Quality over quantity is your advantage. Target micro-brands that value authentic partnerships over reach.",
               "Apply for influencer networks that connect brands seeking niche creators - often offer better rates per engagement.">>
        ELSE <<>>)
    \o (IF p.followers >= 100000
        THEN <<"You have significant reach. Approach major brands directly with professional media kit and case studies.",
               "Launch your own product line. Your audience size justifies custom merchandise or digital products.">>
        ELSE <<>>)
    \o (IF Includes(ToLowerCase(p.challenges), "engagement")
        THEN <<"Focus on posting frequency optimization - test different posting times and content formats to boost engagement.",
               "Implement call-to-action strategies consistently - encourage saves, shares, and comments in every post.">>
        ELSE <<>>)
    \o (IF ~Includes(ToLowerCase(p.challenges), "engagement")
           /\ Includes(ToLowerCase(p.challenges), "monetization")
        THEN <<"Start with affiliate marketing of products you genuinely use - lowest barrier to entry for monetization.",
               "Current market rate for " \o p.niche \o " creators: "
               \o (IF Len(mr.monetizationOpportunities) > 0
                      /\ mr.monetizationOpportunities[1].estimatedEarnings # ""
                   THEN mr.monetizationOpportunities[1].estimatedEarnings
                   ELSE "varies")
               \o ". Track performance metrics to justify rates.">>
        ELSE <<>>)
    \o [i \in 1..Len(Slice(mr.trends, 2)) |-> TrendRecommendation(mr.trends[i])]

generatePersonalizedRecommendations(mr, p, factors) ==
    (IF RatGE(factors.communityEngagement, 7)
     THEN <<"Your community engagement is strong. Leverage this to launch exclusive membership programs or courses.",
            "Consider starting a community Discord or Telegram for deeper connections - monetize with premium tier access.">>
     ELSE <<>>)
    \o (IF p.followers < 50000 /\ RatGE(factors.contentQuality, 6)
        THEN <<"Quality over quantity is your advantage. Target micro-brands that value authentic partnerships over reach.",
               "Apply for influencer networks that connect brands seeking niche creators - often offer better rates per engagement.">>
        ELSE <<>>)
    \o (IF p.followers >= 100000
        THEN <<"You have significant reach. Approach major brands directly with professional media kit and case studies.",
               "Launch your own product line. Your audience size justifies custom merchandise or digital products.">>
        ELSE <<>>)
    \o (IF Includes(ToLowerCase(p.challenges), "engagement")
        THEN <<"Focus on posting frequency optimization - test different posting times and content formats to boost engagement.",
               "Implement call-to-action strategies consistently - encourage saves, shares, and comments in every post.">>
        ELSE <<>>)
    \o (IF Includes(ToLowerCase(p.challenges), "monetization")
        THEN <<"Start with affiliate marketing of products you genuinely use - lowest barrier to entry for monetization.",
               "Current market rate for " \o p.niche \o " creators: "
               \o (IF Len(mr.monetizationOpportunities) > 0
                      /\ mr.monetizationOpportunities[1].estimatedEarnings # ""
                   THEN mr.monetizationOpportunities[1].estimatedEarnings
                   ELSE "varies")
               \o ". Track performance metrics to justify rates.">>
        ELSE <<>>)
    \o [i \in 1..Len(Slice(mr.trends, 2)) |-> TrendRecommendation(mr.trends[i])]

\* A faulty growth plan: the partnership entries are added only when the
\* creator can monetize at once, so the lists get shorter otherwise.
generatePersonalizedGrowthPlanPushed(p, mr) ==
    LET factors == calculateAdaptationFactors(p)
        immediate == factors.timeToMonetize = "immediate"
    IN  [nextMonth |->
            <<"Implement engagement boosting strategies (CTAs, hashtag optimization)",
              "Post 3-4 times per week to optimize algorithm visibility",
              "Analyze top 5 performing posts and create 3 similar content variations",
              "Reach out to 10 complementary creators for collaboration opportunities">>,
         nextQuarter |->
            (IF immediate
             THEN <<"Negotiate and finalize 2-3 brand partnerships">> ELSE <<>>)
            \o <<"Scale to " \o ToString(p.followers + 10000)
                 \o "+ followers through consistency",
                 "Launch email newsletter for direct audience communication",
                 "Test and optimize posting schedule for maximum reach">>,
         nextYear |->
            <<"Establish yourself as industry authority through thought leadership",
              "Target " \o ToString(p.followers * 3) \o "-" \o ToString(p.followers * 5)
              \o "x follower growth through strategic content",
              "Develop 1-2 signature content formats that define your brand">>
            \o (IF immediate
                THEN <<"Generate ${250000}+ annual income through multiple revenue streams">>
                ELSE <<>>)]

generatePersonalizedGrowthPlan(p, mr) ==
    LET factors == calculateAdaptationFactors(p)
    IN  [nextMonth |->
            <<IF RatGE(factors.communityEngagement, 7)
              THEN "Launch weekly community engagement ritual (polls, Q&A, challenges)"
              ELSE "Implement engagement boosting strategies (CTAs, hashtag optimization)",
              "Post " \o (IF RatGE(factors.contentQuality, 7) THEN "4-5" ELSE "3-4")
              \o " times per week to optimize algorithm visibility",
              "Analyze top 5 performing posts and create 3 similar content variations",
              "Reach out to 10 complementary creators for collaboration opportunities">>,
         nextQuarter |->
            <<IF factors.timeToMonetize = "immediate"
              THEN "Negotiate and finalize 2-3 brand partnerships"
              ELSE "Build media kit and start approaching micro-brands",
              "Scale to " \o ToString(p.followers + 10000)
              \o "+ followers through consistency",
              "Launch email newsletter for direct audience communication",
              "Test and optimize posting schedule for maximum reach">>,
         nextYear |->
            <<IF RatGE(factors.communityEngagement, 7)
              THEN "Build and monetize community through membership/paid community"
              ELSE "Establish yourself as industry authority through thought leadership",
              "Target " \o ToString(p.followers * 3) \o "-" \o ToString(p.followers * 5)
              \o "x follower growth through strategic content",
              "Develop 1-2 signature content formats that define your brand",
              IF factors.timeToMonetize = "immediate"
              THEN "Generate ${250000}+ annual income through multiple revenue streams"
              ELSE "Achieve consistent ${100000}+ monthly reach to unlock premium brand deals">>]

RECURSIVE ParseIntHexMod(_, _)
\* parseInt(digits, 16) % m for a sequence of hexadecimal digits. The value
\* of eight digits can exceed the model checker's integers, so the residue
\* is taken digit by digit; parseInt itself is exact below 2^53.
ParseIntHexMod(digits, m) ==
    IF digits = <<>> THEN 0
    ELSE (16 * ParseIntHexMod(SubSeq(digits, 1, Len(digits) - 1), m)
          + digits[Len(digits)]) % m

\* The common denominator of the score's parts: followers / 100000 * 30 is
\* 15 * followers / 50000, engagementRate * 7 is 3500 * engagementPct / 50000
\* and monthlyViews / 1000000 * 20 is monthlyViews / 50000.
ScoreDen ==
    5 * 10000

\* A faulty follower component: the cap of 30 points is left out.
FollowerPartUncapped(p) ==
    15 * p.followers

\* Math.min(30, (profile.followers / 100000) * 30), over ScoreDen
FollowerPart(p) ==
    MathMin(30 * ScoreDen, 15 * p.followers)

\* A faulty engagement component: the rate is multiplied by 35, the
\* component's cap, instead of 7.
EngagementPartTimes35(p) ==
    MathMin(35 * ScoreDen, 17500 * p.engagementPct)

\* Math.min(35, profile.engagementRate * 7), over ScoreDen
EngagementPart(p) ==
    MathMin(35 * ScoreDen, 3500 * p.engagementPct)

\* Math.min(20, (profile.monthlyViews / 1000000) * 20), over ScoreDen
ReachPart(p) ==
    MathMin(20 * ScoreDen, p.monthlyViews)

\* marketResearch.industryInsights.length > 0 ? 10 : 0
marketBonus(mr) ==
    IF Len(mr.industryInsights) > 0 THEN 10 ELSE 0

\* A faulty fingerprint bonus: the modulus is 16 instead of 5.
fingerprintBonusMod16(personalityFingerprint) ==
    ParseIntHexMod(SubSeq(personalityFingerprint, 1, 8), 16) + 1

\* (parseInt(personalityFingerprint.substring(0, 8), 16) % 5) + 1
fingerprintBonus(personalityFingerprint) ==
    ParseIntHexMod(SubSeq(personalityFingerprint, 1, 8), 5) + 1

\* A faulty calculateUniqueFameScore: the fingerprint bonus is subtracted.
calculateUniqueFameScoreMinus(p, mr, personalityFingerprint) ==
    MathMin(100,
            MathRound(FollowerPart(p) + EngagementPart(p) + ReachPart(p)
                      + marketBonus(mr) * ScoreDen
                      - fingerprintBonus(personalityFingerprint) * ScoreDen,
                      ScoreDen))

calculateUniqueFameScore(p, mr, personalityFingerprint) ==
    MathMin(100,
            MathRound(FollowerPart(p) + EngagementPart(p) + ReachPart(p)
                      + marketBonus(mr) * ScoreDen
                      + fingerprintBonus(personalityFingerprint) * ScoreDen,
                      ScoreDen))

\* The sentences of the position statement, which the code joins with " ".
generateMarketPosition(p, mr, score) ==
    LET tier ==
            IF score >= 80
            THEN "You are a TOP TIER creator in the " \o p.niche \o " space"
            ELSE IF score >= 60
            THEN "You are an ESTABLISHED creator in the " \o p.niche \o " space"
            ELSE IF score >= 40
            THEN "You are a GROWING creator in the " \o p.niche \o " space"
            ELSE "You are an EMERGING creator in the " \o p.niche \o " space"
        competitors == mr.competitorAnalysis.topCompetitors
    IN  IF Len(competitors) = 0 THEN <<tier>>
        ELSE IF p.followers >= competitors[1].followers
        THEN <<tier, "Your reach exceeds current market leaders. You're positioned for premium brand partnerships.">>
        ELSE IF 2 * p.followers >= competitors[1].followers
        THEN <<tier, "You're in the competitive tier. Differentiation and consistency are your keys to breakthrough.">>
        ELSE <<tier, "You're in a high-growth segment. Focus on niche authority building before scaling.">>

\* ---------------------------------------------------------- request handler

\* A JavaScript undefined where an object or a string is expected.
Undefined ==
    [undefined |-> TRUE]

UndefinedUrl ==
    "undefined"

ProfileA ==
    [name |-> "Asha", niche |-> "Beauty & Skincare", platform |-> "Instagram",
     followers |-> 50000, engagementPct |-> 8, monthlyViews |-> 500000,
     content |-> "Reels", goals |-> "brand deals", challenges |-> "Low Engagement"]

ProfileB ==
    [name |-> "Bo", niche |-> "Gaming", platform |-> "YouTube",
     followers |-> 250000, engagementPct |-> 100, monthlyViews |-> 2000000,
     content |-> "Streams", goals |-> "own product line",
     challenges |-> "Engagement and Monetization"]

\* The request bodies a client may post.
Requests ==
    [userId : {"", "user-1"}, creatorProfile : {Undefined, ProfileA, ProfileB}]

\* crypto.randomBytes(16).toString("hex")
RandomBytes ==
    {"9f3c", "c41d"}

\* Date.now(): a request is handled within one instant of the clock.
Clock ==
    {1}

\* A hexadecimal string as the sequence of its digits.
Fingerprints ==
    {<<0, 0, 0, 0, 0, 0, 0, 0, 0, 0, 0, 0>>,
     <<0, 0, 0, 0, 0, 0, 0, 1, 15, 15, 15, 15>>,
     <<0, 0, 0, 0, 0, 0, 0, 2, 0, 0, 0, 3>>,
     <<0, 0, 0, 0, 0, 0, 0, 3, 10, 11, 12, 13>>,
     <<13, 14, 10, 13, 11, 14, 14, 15, 0, 0, 0, 0>>,
     <<15, 15, 15, 15, 15, 15, 15, 15, 15, 15, 15, 15>>,
     <<7, 15, 15, 15, 15, 15, 15, 15, 1, 2, 3, 4>>}

\* The fingerprints drawn while a request is handled.
RequestFingerprints ==
    {<<0, 0, 0, 0, 0, 0, 0, 0, 0, 0, 0, 0>>,
     <<13, 14, 10, 13, 11, 14, 14, 15, 0, 0, 0, 0>>}

\* agent_<hash>_<timestamp>: the 16 digits of the digest are stood for by
\* the data that is hashed.
generateUniqueAgentId(userId, timestamp, entropy) ==
    [hash |-> <<userId, timestamp, entropy>>, timestamp |-> timestamp]

NoRequest ==
    [userId |-> "", creatorProfile |-> Undefined]

NoAgentId ==
    [hash |-> <<>>, timestamp |-> 0]

NoResearch ==
    [pending |-> TRUE]

NoAnalysis ==
    [pending |-> TRUE]

\* text is the response text the call has handed to the waiting Promise.all
\* (0: none); a rejection of Promise.all discards what was handed in, and a
\* value that arrives later is kept nowhere.
NoCall ==
    [status |-> "none", provider |-> "none", text |-> 0]

\* executeMarketResearch up to its await: the state of the call it leaves.
\* A throw from selectBestProvider or from the switch's default branch
\* rejects the call at once.
executeMarketResearch(e) ==
    LET selectedProvider == selectBestProvider(getAvailableProviders(e))
    IN  IF selectedProvider = NoProviderError
        THEN [status |-> "failed", provider |-> "none", text |-> 0]
        ELSE IF selectedProvider.name \in {"openai", "anthropic", "google"}
        THEN [status |-> "pending", provider |-> selectedProvider.name, text |-> 0]
        ELSE [status |-> "failed", provider |-> selectedProvider.name, text |-> 0]

RECURSIVE Join(_, _)
\* Array.prototype.join(sep)
Join(strs, sep) ==
    IF strs = <<>> THEN ""
    ELSE IF Len(strs) = 1 THEN strs[1]
    ELSE strs[1] \o sep \o Join(Tail(strs), sep)

\* The response object the handler assembles before rendering the PDF.
BuildAnalysis(req, aid, personalityFingerprint, mr, now) ==
    LET p == req.creatorProfile
        adaptationFactors == calculateAdaptationFactors(p)
        score == calculateUniqueFameScore(p, mr, personalityFingerprint)
    IN  [agentId |-> aid,
         userId |-> req.userId,
         analysis |->
            [fameScore |-> score,
             marketPosition |-> Join(generateMarketPosition(p, mr, score), " "),
             keyInsights |-> Slice(mr.industryInsights, 5),
             recommendations |->
                generatePersonalizedRecommendations(mr, p, adaptationFactors),
             trendAnalysis |-> Join(Slice(mr.trends, 3), " | "),
             competitiveAdvantage |->
                "Based on market analysis, you stand out in the " \o p.niche
                \o " space due to your "
                \o (IF RatGE(adaptationFactors.contentQuality, 7)
                    THEN "high-quality content" ELSE "authentic approach")
                \o " and "
                \o (IF RatGE(adaptationFactors.communityEngagement, 7)
                    THEN "strong community engagement" ELSE "growing audience base")
                \o ". Your unique selling proposition lies in combining "
                \o p.niche \o " expertise with " \o p.goals \o ".",
             monetizationStrategy |->
                "Start with "
                \o (IF adaptationFactors.timeToMonetize = "immediate"
                    THEN "premium brand partnerships and sponsorships"
                    ELSE "affiliate marketing and micro-partnerships")
                \o " to build momentum. Focus on "
                \o (IF RatGE(adaptationFactors.communityEngagement, 7)
                    THEN "community monetization through membership/courses"
                    ELSE "scaling reach before premium monetization")
                \o "."],
         marketResearch |-> mr,
         growthPlan |-> generatePersonalizedGrowthPlan(p, mr),
         pdfUrl |-> UndefinedUrl,
         generatedAt |-> now]

MissingFieldsResponse ==
    [status |-> 400,
     body |-> [error |-> "Missing required fields: userId and creatorProfile"]]

NoProviderResponse ==
    [status |-> 500,
     body |-> [error |-> "No AI providers configured. Set OPENAI_API_KEY, ANTHROPIC_API_KEY, or GOOGLE_API_KEY environment variables."]]

\* The handler's outer catch block.
FailureResponse(message) ==
    [status |-> 500, body |-> [error |-> message]]

\* A faulty provider check: the handler goes on without providers.
NoProvidersNever(providers) ==
    FALSE

\* providers.length === 0
NoProviders(providers) ==
    Len(providers) = 0

\* The PDF block: the data URL of the rendered buffer, or undefined when the
\* renderer threw.
PdfUrl(ok) ==
    IF ok THEN "data:application/pdf;base64,<bytes>" ELSE UndefinedUrl

\* A faulty PDF block: a render failure is answered with an error.
RenderResponseStrict(a, ok) ==
    IF ok THEN [status |-> 200, body |-> [a EXCEPT !.pdfUrl = PdfUrl(ok)]]
    ELSE FailureResponse("Failed to generate AI analysis")

\* analysis.pdfUrl = pdfUrl; res.json(analysis)
RenderResponse(a, ok) ==
    [status |-> 200, body |-> [a EXCEPT !.pdfUrl = PdfUrl(ok)]]

\* The handler from the return of compileMarketResearchData to its next
\* await (the PDF renderer), or to its outer catch block when the compiler
\* rejected.
Settle(req, aid, personalityFingerprint, mr, now) ==
    /\ marketResearch' = mr
    /\ IF "threw" \in DOMAIN mr
       THEN /\ analysis' = NoAnalysis
            /\ responses' = <<FailureResponse(mr.threw)>>
            /\ pc' = "done"
       ELSE /\ analysis' = BuildAnalysis(req, aid, personalityFingerprint, mr, now)
            /\ responses' = <<>>
            /\ pc' = "pdf"

HandlerIdle ==
    /\ request = NoRequest
    /\ agentId = NoAgentId
    /\ fingerprint = <<>>
    /\ calls = [t \in Topics |-> NoCall]
    /\ values = [t \in Topics |-> 0]
    /\ issued = [t \in Topics |-> 0]
    /\ marketResearch = NoResearch
    /\ analysis = NoAnalysis
    /\ rendered = "none"
    /\ responses = <<>>

SelectIdle ==
    /\ providerList = <<>>
    /\ selected = NoProviderError

ScoreIdle ==
    /\ profile = ProfileA
    /\ market = FallbackMarketResearch
    /\ personality = <<>>
    /\ fameScore = 0

NoReturn ==
    [pending |-> TRUE]

OtherIdle ==
    /\ called = [name |-> "none"]
    /\ returned = NoReturn
    /\ catalog = <<>>
    /\ firstCall = [call |-> [name |-> "none"], score |-> 0, repeated |-> FALSE]
    /\ agentIds = <<>>

\* The user ids of the analytics requests.
UserIds ==
    {"user-1", "user-2"}

StoreIdle ==
    /\ supabase = [configured |-> FALSE, rows |-> 0]
    /\ attempt = 0
    /\ requests = <<>>
    /\ userDatabase = [u \in UserIds |-> Undefined]
    /\ downloadDatabase = [u \in UserIds |-> <<>>]
    /\ accepted = [u \in UserIds |-> 0]
    /\ hookState = [data |-> "null", loading |-> FALSE, error |-> "null"]

Init ==
    /\ env \in SUBSET EnvKeys
    /\ pc = "idle"
    /\ HandlerIdle
    /\ SelectIdle
    /\ StoreIdle
    /\ ScoreIdle
    /\ OtherIdle

\* handleAIAgentAnalysis from its entry to its first await: validation, the
\* provider check, the ids, and the four research calls Promise.all starts.
Receive(req, ts, entropy, personalityFingerprint, now) ==
    /\ pc = "idle"
    /\ request' = req
    /\ IF req.userId = "" \/ req.creatorProfile = Undefined
       THEN /\ responses' = <<MissingFieldsResponse>>
            /\ pc' = "done"
            /\ UNCHANGED <<agentId, fingerprint, calls, values, issued,
                           marketResearch, analysis>>
       ELSE IF NoProviders(getAvailableProviders(env))
       THEN /\ responses' = <<NoProviderResponse>>
            /\ pc' = "done"
            /\ UNCHANGED <<agentId, fingerprint, calls, values, issued,
                           marketResearch, analysis>>
       ELSE /\ agentId' = generateUniqueAgentId(req.userId, ts, entropy)
            /\ fingerprint' = personalityFingerprint
            /\ calls' = [t \in Topics |-> executeMarketResearch(env)]
            /\ issued' = [t \in Topics |-> 1]
            /\ values' = [t \in Topics |-> 0]
            /\ IF \E t \in Topics : calls'[t].status = "failed"
               THEN Settle(req, agentId', personalityFingerprint, CompileCatch, now)
               ELSE /\ pc' = "research"
                    /\ UNCHANGED <<marketResearch, analysis, responses>>
    /\ UNCHANGED <<env, rendered, selectVars, scoreVars, storeVars, otherVars>>

\* A provider call rejects (network failure, timeout, non-2xx answer, or an
\* answer without the expected members). The first rejection rejects
\* Promise.all, and the compiler's catch block runs.
CallFails(t, now) ==
    /\ calls[t].status = "pending"
    /\ calls' = IF pc = "research"
                THEN [u \in Topics |->
                        [calls[u] EXCEPT
                            !.status = IF u = t THEN "failed" ELSE @,
                            !.text = 0]]
                ELSE [calls EXCEPT ![t].status = "failed"]
    /\ IF pc = "research"
       THEN /\ values' = [u \in Topics |-> 0]
            /\ Settle(request, agentId, fingerprint, CompileCatch, now)
       ELSE UNCHANGED <<pc, values, marketResearch, analysis, responses>>
    /\ UNCHANGED <<env, request, agentId, fingerprint, issued, rendered,
                   selectVars, scoreVars, storeVars, otherVars>>

\* A faulty Promise.all: a value is put at the first free index, in the
\* order in which the calls complete.
ValuesAfterArrival(vals, t, r) ==
    LET order == <<"position", "monetization", "competitors", "trends">>
        free == {i \in 1..4 : vals[order[i]] = 0}
    IN  [vals EXCEPT ![order[CHOOSE i \in free : \A j \in free : i <= j]] = r]

\* Promise.all puts the value of a call at the index of that call in the
\* array it was given, whenever the call completes; the destructuring
\* [marketResearch, monetizationResearch, competitorResearch, trendResearch]
\* reads the indices back by topic.
ValuesAfter(vals, t, r) ==
    [vals EXCEPT ![t] = r]

\* A provider call returns text r. Promise.all fulfils with the last of the
\* four; a value that arrives after a rejection is dropped.
CallReturns(t, r, now) ==
    /\ calls[t].status = "pending"
    /\ calls' = [calls EXCEPT ![t].status = "ok",
                              ![t].text = IF pc = "research" THEN r ELSE 0]
    /\ IF pc = "research"
       THEN /\ values' = ValuesAfter(values, t, r)
            /\ IF \A u \in Topics : calls'[u].status = "ok"
               THEN Settle(request, agentId, fingerprint,
                           CompileTry([u \in Topics |-> ResponseText(values'[u])],
                                      request.creatorProfile.followers),
                           now)
               ELSE UNCHANGED <<pc, marketResearch, analysis, responses>>
       ELSE UNCHANGED <<pc, values, marketResearch, analysis, responses>>
    /\ UNCHANGED <<env, request, agentId, fingerprint, issued, rendered,
                   selectVars, scoreVars, storeVars, otherVars>>

\* generatePersonalizedPDF returns a buffer (ok) or throws; the handler sets
\* pdfUrl and sends the response.
RenderPdf(ok) ==
    /\ pc = "pdf"
    /\ rendered' = IF ok THEN "ok" ELSE "failed"
    /\ responses' = Append(responses, RenderResponse(analysis, ok))
    /\ analysis' = [analysis EXCEPT !.pdfUrl = PdfUrl(ok)]
    /\ pc' = "done"
    /\ UNCHANGED <<env, request, agentId, fingerprint, calls, values, issued,
                   marketResearch, selectVars, scoreVars, storeVars, otherVars>>

\* The server takes the next request.
NextRequest ==
    /\ pc = "done"
    /\ pc' = "idle"
    /\ request' = NoRequest
    /\ agentId' = NoAgentId
    /\ fingerprint' = <<>>
    /\ calls' = [t \in Topics |-> NoCall]
    /\ values' = [t \in Topics |-> 0]
    /\ issued' = [t \in Topics |-> 0]
    /\ marketResearch' = NoResearch
    /\ analysis' = NoAnalysis
    /\ rendered' = "none"
    /\ responses' = <<>>
    /\ UNCHANGED <<env, selectVars, scoreVars, storeVars, otherVars>>

Next ==
    \/ \E req \in Requests, ts \in Clock, entropy \in RandomBytes,
          personalityFingerprint \in RequestFingerprints :
            \E now \in {c \in Clock : c >= ts} :
                Receive(req, ts, entropy, personalityFingerprint, now)
    \/ \E t \in Topics, now \in Clock :
            now >= agentId.timestamp /\ CallFails(t, now)
    \/ \E t \in Topics, r \in Responses, now \in Clock :
            now >= agentId.timestamp /\ CallReturns(t, r, now)
    \/ \E ok \in BOOLEAN : RenderPdf(ok)
    \/ NextRequest

Spec ==
    Init /\ [][Next]_vars

\* ------------------------------------------------- selectBestProvider alone

ProviderPool ==
    {OpenAI, Anthropic, Google, OtherProvider}

ProviderLists ==
    UNION {[1..n -> ProviderPool] : n \in 0..MaxProviders}

SelectInit ==
    /\ providerList \in ProviderLists
    /\ selected = NoProviderError
    /\ pc = "select"
    /\ env = {}
    /\ HandlerIdle
    /\ ScoreIdle
    /\ StoreIdle
    /\ OtherIdle

Select ==
    /\ pc = "select"
    /\ selected' = selectBestProvider(providerList)
    /\ pc' = "selected"
    /\ UNCHANGED <<providerList, handlerVars, scoreVars, storeVars, otherVars>>

SelectNext ==
    Select

SpecSelect ==
    SelectInit /\ [][SelectNext]_vars

\* --------------------------------------------- calculateUniqueFameScore alone

FollowerValues ==
    {0, 1, 49999, 50000, 99999, 100000, 100001, 10000000}
    \cup {(i * 100000) \div MaxGrid : i \in 0..MaxGrid}

EngagementValues ==
    {0, 1, 8, 99, 100} \cup {(i * 100) \div MaxGrid : i \in 0..MaxGrid}

ViewValues ==
    {0, 1, 999999, 1000000, 10000000}
    \cup {(i * 1000000) \div MaxGrid : i \in 0..MaxGrid}

ScoreProfiles ==
    {[ProfileA EXCEPT !.followers = f, !.engagementPct = e, !.monthlyViews = v] :
        f \in FollowerValues, e \in EngagementValues, v \in ViewValues}

\* Market research with insights (the fallback object) and without.
ScoreMarkets ==
    {FallbackMarketResearch,
     [FallbackMarketResearch EXCEPT !.industryInsights = <<>>]}

ScoreInit ==
    /\ profile \in ScoreProfiles
    /\ market \in ScoreMarkets
    /\ personality \in Fingerprints
    /\ fameScore = 0
    /\ pc = "score"
    /\ env = {}
    /\ HandlerIdle
    /\ SelectIdle
    /\ StoreIdle
    /\ OtherIdle

Score ==
    /\ pc = "score"
    /\ fameScore' = calculateUniqueFameScore(profile, market, personality)
    /\ pc' = "scored"
    /\ UNCHANGED <<profile, market, personality, handlerVars, selectVars,
                   otherVars, storeVars>>

ScoreNext ==
    Score

SpecFame ==
    ScoreInit /\ [][ScoreNext]_vars

\* ------------------------------------------------------ commercial viability

\* The product catalog ("->" stands for the arrow character of the source).
PRODUCT_VIABILITY_DATABASE ==
    "fame-score-report" :>
        [productId |-> "fame-score-report",
         name |-> "Fame Score Report (Premium)",
         commercialScore |-> 92,
         marketDemand |-> "high",
         monetizationPotential |-> "$99 per report | High conversion (15-20%)",
         targetAudience |-> "Aspiring creators (18-35 years old)",
         timeToMonetize |-> "Immediate",
         estimatedMonthlyEarnings |-> "$2,000-$5,000 (at 20+ sales/month)",
         competitionLevel |-> "medium",
         recommendedStrategy |->
            "Package as lead magnet -> Email nurture -> Upsell to premium tools. 70% of buyers purchase additional products.",
         marketTrends |->
            <<"Creator economy tools trending 45% YoY",
              "Personal branding tools high demand",
              "DIY analytics tools replacing agency services">>]
    @@
    "media-kit-template" :>
        [productId |-> "media-kit-template",
         name |-> "Professional Media Kit Template",
         commercialScore |-> 85,
         marketDemand |-> "high",
         monetizationPotential |-> "$49-$99 | Can be packaged with other products",
         targetAudience |->
            "Professional creators, influencers (25-45 years old)",
         timeToMonetize |-> "1-2 weeks",
         estimatedMonthlyEarnings |-> "$1,000-$3,000 (at 20-30 sales/month)",
         competitionLevel |-> "high",
         recommendedStrategy |->
            "Bundle with branding package. Offer limited-time discount (30% off) to get initial traction. Price elasticity shows 35% price increase = 15% sales decrease.",
         marketTrends |->
            <<"Professional creator services trending",
              "B2B creator demand increasing",
              "Agencies prefer packaged services">>]
    @@
    "growth-strategy-guide" :>
        [productId |-> "growth-strategy-guide",
         name |-> "30/90/365 Day Growth Strategy Guide",
         commercialScore |-> 88,
         marketDemand |-> "high",
         monetizationPotential |->
            "$29-$49 | High-volume seller (price-sensitive audience)",
         targetAudience |-> "New creators, micro-influencers (18-28 years old)",
         timeToMonetize |-> "1-3 weeks",
         estimatedMonthlyEarnings |-> "$1,500-$4,000 (at 50+ sales/month)",
         competitionLevel |-> "high",
         recommendedStrategy |->
            "Position as budget-friendly alternative. Use affiliate model - 40% commission to creators who promote. Can reach $5K/month at scale.",
         marketTrends |->
            <<"Growth hacking tools extremely popular",
              "Budget-friendly products preferred by Gen Z",
              "Email-based strategies gaining traction">>]
    @@
    "monetization-calculator" :>
        [productId |-> "monetization-calculator",
         name |-> "AI-Powered Monetization Calculator",
         commercialScore |-> 87,
         marketDemand |-> "high",
         monetizationPotential |-> "$19-$39 | Excellent for upselling",
         targetAudience |-> "Monetizing creators (20-45 years old)",
         timeToMonetize |-> "Immediate",
         estimatedMonthlyEarnings |-> "$800-$2,000 (at 30-50 sales/month)",
         competitionLevel |-> "low",
         recommendedStrategy |->
            "Use as lead magnet for email list. Free version captures emails -> Premium version ($39) = 10-15% conversion. Follow-up emails generate $500/month per 1K emails.",
         marketTrends |->
            <<"Monetization tools high demand",
              "AI tools experiencing 150% growth in demand",
              "Creator economics gaining mainstream attention">>]
    @@
    "analytics-tracker" :>
        [productId |-> "analytics-tracker",
         name |-> "Pro-Level Analytics Tracker (Spreadsheet)",
         commercialScore |-> 79,
         marketDemand |-> "medium",
         monetizationPotential |-> "$29-$49 | Software alternative at fraction of cost",
         targetAudience |->
            "Serious creators, micro-influencers (22-40 years old)",
         timeToMonetize |-> "2-4 weeks",
         estimatedMonthlyEarnings |-> "$600-$1,500 (at 20-30 sales/month)",
         competitionLevel |-> "high",
         recommendedStrategy |->
            "Position against expensive SaaS tools. Offer training webinar for $97 -> Include template free. 20-25% of webinar attendees buy premium version.",
         marketTrends |->
            <<"DIY analytics preferred by budget-conscious creators",
              "Spreadsheet-based solutions trendy",
              "Data literacy becoming essential">>]
    @@
    "content-calendar" :>
        [productId |-> "content-calendar",
         name |-> "AI Content Calendar & Planning System",
         commercialScore |-> 81,
         marketDemand |-> "high",
         monetizationPotential |-> "$39-$79 | Recurring potential with monthly updates",
         targetAudience |-> "Busy creators, content teams (25-50 years old)",
         timeToMonetize |-> "1-3 weeks",
         estimatedMonthlyEarnings |->
            "$1,200-$3,000 (at 30-40 sales/month + subscriptions)",
         competitionLevel |-> "medium",
         recommendedStrategy |->
            "Offer SaaS model: $29/month subscription. Lower initial price but recurring revenue. Average customer LTV = $300+ (12 months).",
         marketTrends |->
            <<"Content planning tools growing 40% YoY",
              "Subscription models preferred",
              "AI-powered planning gaining traction">>]
    @@
    "brand-positioning-workbook" :>
        [productId |-> "brand-positioning-workbook",
         name |-> "Brand Positioning Interactive Workbook",
         commercialScore |-> 83,
         marketDemand |-> "medium",
         monetizationPotential |-> "$47-$97 | Premium positioning",
         targetAudience |->
            "Professional creators, personal brands (25-55 years old)",
         timeToMonetize |-> "2-4 weeks",
         estimatedMonthlyEarnings |-> "$700-$2,000 (at 15-20 sales/month)",
         competitionLevel |-> "medium",
         recommendedStrategy |->
            "Offer with 1-on-1 consultation upsell ($299-$499). 30-40% conversion to consultation. Consultation alone generates $4K-$8K/month.",
         marketTrends |->
            <<"Personal branding critical for creators",
              "Premium positioning products doing well",
              "Consultation bundling increasing average order value">>]
    @@
    "affiliate-marketing-guide" :>
        [productId |-> "affiliate-marketing-guide",
         name |-> "Advanced Affiliate Marketing Guide for Creators",
         commercialScore |-> 86,
         marketDemand |-> "high",
         monetizationPotential |-> "$37-$67 | High-volume potential",
         targetAudience |-> "Income-focused creators (20-40 years old)",
         timeToMonetize |-> "1-2 weeks",
         estimatedMonthlyEarnings |-> "$1,500-$4,000 (at 40-60 sales/month)",
         competitionLevel |-> "high",
         recommendedStrategy |->
            "Create YouTube course review ($397) to drive this sales. 5-8% of course buyers purchase guide. YT channel generating $2K/month at scale.",
         marketTrends |->
            <<"Affiliate marketing hottest creator income source",
              "High demand for affiliate strategies",
              "Passive income focus trending">>]

\* The names every plain object inherits from Object.prototype: a lookup
\* PRODUCT_VIABILITY_DATABASE[productId] with one of them finds the inherited
\* member, which is truthy, although the catalog has no such product.
ObjectPrototype ==
    {"constructor", "toString", "valueOf", "hasOwnProperty", "__proto__"}

\* A faulty score adjustment: the thresholds themselves earn the bonus.
adjustedScoreInclusive(base, downloadCount, userEngagement) ==
    MathMin(100, base + (IF downloadCount >= 100 THEN 5 ELSE 0)
                      + (IF downloadCount >= 500 THEN 5 ELSE 0)
                      + (IF userEngagement >= 70 THEN 5 ELSE 0))

\* userEngagement is carried in hundredths (0.7 is 70).
adjustedScore(base, downloadCount, userEngagement) ==
    MathMin(100, base + (IF downloadCount > 100 THEN 5 ELSE 0)
                      + (IF downloadCount > 500 THEN 5 ELSE 0)
                      + (IF userEngagement > 70 THEN 5 ELSE 0))

\* Not-a-number, the result of arithmetic on undefined: a value that is no
\* score and equals no number.
NaN ==
    -1

\* An inherited member has none of the catalog's fields: reading one yields
\* undefined, the arithmetic on it NaN, and the spread copies nothing.
calculateCommercialViability(db, productId, downloadCount, userEngagement) ==
    IF productId \in DOMAIN db
    THEN [db[productId] EXCEPT
            !.commercialScore = adjustedScore(@, downloadCount, userEngagement)]
    ELSE IF productId \in ObjectPrototype
    THEN [commercialScore |-> NaN, marketDemand |-> "undefined",
          name |-> "undefined", estimatedMonthlyEarnings |-> "undefined",
          recommendedStrategy |-> "undefined", marketTrends |-> "undefined"]
    ELSE [productId |-> productId,
          name |-> "Unknown Product",
          commercialScore |-> 0,
          marketDemand |-> "low",
          monetizationPotential |-> "Unable to assess",
          targetAudience |-> "Unknown",
          timeToMonetize |-> "Unknown",
          estimatedMonthlyEarnings |-> "$0",
          competitionLevel |-> "unknown",
          recommendedStrategy |-> "Product not found in database",
          marketTrends |-> <<>>]

\* A faulty calculateCommercialViability: the adjusted score is written to
\* the catalog's own entry instead of a copy.
CatalogAfterInPlace(db, productId, downloadCount, userEngagement) ==
    IF productId \in DOMAIN db
    THEN [db EXCEPT ![productId].commercialScore =
                        adjustedScore(@, downloadCount, userEngagement)]
    ELSE db

\* The catalog after a call of calculateCommercialViability: the result is
\* a spread copy, so the catalog is as before.
CatalogAfter(db, productId, downloadCount, userEngagement) ==
    db

\* parseInt(text.split("-")[0].replace(/\D/g, "")) for the earnings texts of
\* the catalog and of the stub.
MinEarnings(text) ==
    CASE text = "$0" -> 0
      [] text = "$2,000-$5,000 (at 20+ sales/month)" -> 2000
      [] text = "$1,000-$3,000 (at 20-30 sales/month)" -> 1000
      [] text = "$1,500-$4,000 (at 50+ sales/month)" -> 1500
      [] text = "$800-$2,000 (at 30-50 sales/month)" -> 800
      [] text = "$600-$1,500 (at 20-30 sales/month)" -> 600
      [] text = "$1,200-$3,000 (at 30-40 sales/month + subscriptions)" -> 1200
      [] text = "$700-$2,000 (at 15-20 sales/month)" -> 700
      [] text = "$1,500-$4,000 (at 40-60 sales/month)" -> 1500

RECURSIVE SortByScore(_)
\* Array.prototype.sort((a, b) => b.commercialScore - a.commercialScore): a
\* stable sort, highest score first: an element goes behind the ones with a
\* higher score and before the later ones with the same score.
SortByScore(products) ==
    IF Len(products) <= 1 THEN products
    ELSE LET rest == SortByScore(Tail(products))
             before == {i \in 1..Len(rest) :
                            rest[i].commercialScore > Head(products).commercialScore}
             k == IF before = {} THEN 0
                  ELSE CHOOSE i \in before : \A j \in before : j <= i
         IN  SubSeq(rest, 1, k) \o <<Head(products)>> \o SubSeq(rest, k + 1, Len(rest))

RECURSIVE Flatten(_)
Flatten(lists) ==
    IF lists = <<>> THEN <<>> ELSE Head(lists) \o Flatten(Tail(lists))

RECURSIVE Sum(_)
Sum(numbers) ==
    IF numbers = <<>> THEN 0 ELSE Head(numbers) + Sum(Tail(numbers))

\* generateCommercialReport: the earnings text of an inherited member is
\* undefined, and calling split on it raises a TypeError. The two amounts of
\* totalPotentialMonthly are given as numbers, the higher one doubled
\* (potentialEarnings * 1.5 is highTimes2 / 2).
generateCommercialReport(db, downloads, niche) ==
    LET viableProducts ==
            [i \in 1..Len(downloads) |->
                calculateCommercialViability(db, downloads[i].productId,
                                             downloads[i].count, 75)]
    IN  IF \E i \in 1..Len(downloads) : downloads[i].productId \in ObjectPrototype
        THEN [threw |-> "TypeError"]
        ELSE LET sorted == SortByScore(viableProducts)
                 potentialEarnings ==
                    Sum([i \in 1..Len(sorted) |->
                            MinEarnings(sorted[i].estimatedMonthlyEarnings)])
                 strategies ==
                    [i \in 1..Len(Slice(sorted, 3)) |-> sorted[i].recommendedStrategy]
                 opportunities ==
                    Flatten([i \in 1..Len(Slice(sorted, 3)) |-> sorted[i].marketTrends])
             IN  [topProducts |-> Slice(sorted, 5),
                  totalPotentialMonthly |->
                    [low |-> potentialEarnings, highTimes2 |-> 3 * potentialEarnings],
                  recommendedStrategy |->
                    "Focus on: "
                    \o Join([i \in 1..Len(Slice(sorted, 2)) |-> sorted[i].name], " + ")
                    \o ". "
                    \o (IF strategies = <<>> THEN "undefined" ELSE strategies[1]),
                  marketOpportunities |-> Slice(AddAll(<<>>, opportunities), 5)]

\* The catalog after generateCommercialReport has mapped the downloads.
RECURSIVE CatalogAfterAll(_, _)
CatalogAfterAll(db, downloads) ==
    IF downloads = <<>> THEN db
    ELSE CatalogAfterAll(CatalogAfter(db, Head(downloads).productId,
                                      Head(downloads).count, 75),
                         Tail(downloads))

CatalogInit ==
    /\ catalog = PRODUCT_VIABILITY_DATABASE
    /\ firstCall = [call |-> [name |-> "none"], score |-> 0, repeated |-> FALSE]
    /\ called = [name |-> "none"]
    /\ returned = NoReturn
    /\ agentIds = <<>>
    /\ pc = "catalog"
    /\ env = {}
    /\ HandlerIdle
    /\ SelectIdle
    /\ StoreIdle
    /\ ScoreIdle

\* A call of calculateCommercialViability; the first call and its score are
\* kept for comparison with later ones.
Viability(productId, downloadCount, userEngagement) ==
    /\ pc = "catalog"
    /\ called' = [name |-> "calculateCommercialViability", productId |-> productId,
                  downloadCount |-> downloadCount,
                  userEngagement |-> userEngagement]
    /\ returned' = calculateCommercialViability(catalog, productId, downloadCount,
                                                userEngagement)
    /\ catalog' = CatalogAfter(catalog, productId, downloadCount, userEngagement)
    /\ firstCall' = IF firstCall.call.name = "none"
                    THEN [call |-> called', score |-> returned'.commercialScore,
                          repeated |-> FALSE]
                    ELSE [firstCall EXCEPT !.repeated = TRUE]
    /\ UNCHANGED <<pc, agentIds, handlerVars, selectVars, scoreVars, storeVars>>

\* A call of generateCommercialReport.
Report(downloads) ==
    /\ pc = "catalog"
    /\ called' = [name |-> "generateCommercialReport", downloads |-> downloads]
    /\ returned' = generateCommercialReport(catalog, downloads, "Gaming")
    /\ catalog' = CatalogAfterAll(catalog, downloads)
    /\ firstCall' = IF firstCall.call.name = "none" THEN firstCall
                    ELSE [firstCall EXCEPT !.repeated = TRUE]
    /\ UNCHANGED <<pc, agentIds, handlerVars, selectVars, scoreVars, storeVars>>

CatalogNext ==
    \/ \E productId \in DOMAIN PRODUCT_VIABILITY_DATABASE
                        \cup {"unknown-product", "constructor"},
          downloadCount \in {100, 101, 500, 501},
          userEngagement \in {70, 71} :
            Viability(productId, downloadCount, userEngagement)
    \/ \E downloads \in
            UNION {[1..n -> [productId : {"fame-score-report", "unknown-product",
                                          "constructor"},
                             count : {501}]] : n \in 0..MaxDownloads} :
            Report(downloads)

SpecCatalog ==
    CatalogInit /\ [][CatalogNext]_vars

\* ------------------------------------------------- personalization alone

\* Profiles with follower counts around the thresholds of the rules (50,000
\* and 100,000), around the competitors' counts (80,000 and 500,000) and
\* their halves, and with engagementRate (in hundredths) around the
\* thresholds of contentQuality (6 at 1.2, 7 at 1.4) and communityEngagement
\* (7 at 4/3), and very large.
PersonalProfiles ==
    {[ProfileA EXCEPT !.followers = f, !.engagementPct = e, !.challenges = c] :
        f \in {0, 1, 39999, 40000, 49999, 50000, 79999, 80000, 99999, 100000,
               249999, 250000, 499999, 500000, 10000000},
        e \in {0, 1, 100, 119, 120, 133, 134, 139, 140, 1000000},
        c \in {"", "Low Engagement", "Monetization",
               "Engagement and Monetization"}}

\* Every MarketResearchData compileMarketResearchData can return.
CompilerMarkets ==
    {CompileTry([t \in Topics |-> ResponseText(r[t])], ProfileA.followers) :
        r \in [Topics -> Responses]}
    \cup {CompileCatch}

\* Fame scores around the tiers of generateMarketPosition.
TierScores ==
    {0, 39, 40, 59, 60, 79, 80, 100}

PersonalInit ==
    /\ \/ /\ called = [name |-> "calculateAdaptationFactors"]
          /\ profile \in {p \in PersonalProfiles : p.challenges = ""}
          /\ market = FallbackMarketResearch
          /\ fameScore = 0
       \/ /\ called = [name |-> "generatePersonalizedGrowthPlan"]
          /\ profile \in {p \in PersonalProfiles : p.challenges = ""}
          /\ market \in CompilerMarkets
          /\ fameScore = 0
       \/ /\ called = [name |-> "generateMarketPosition"]
          /\ profile \in {p \in PersonalProfiles :
                            p.challenges = "" /\ p.engagementPct = 0}
          /\ market \in CompilerMarkets
          /\ fameScore \in TierScores
       \/ /\ called = [name |-> "generatePersonalizedRecommendations"]
          /\ profile \in {p \in PersonalProfiles :
                            /\ p.followers \in {0, 49999, 50000, 99999, 100000}
                            /\ p.engagementPct \in {0, 100, 119, 120, 133, 134}}
          /\ market \in CompilerMarkets
          /\ fameScore = 0
    /\ returned = NoReturn
    /\ catalog = <<>>
    /\ firstCall = [call |-> [name |-> "none"], score |-> 0, repeated |-> FALSE]
    /\ agentIds = <<>>
    /\ personality = <<>>
    /\ pc = "personal"
    /\ env = {}
    /\ HandlerIdle
    /\ SelectIdle
    /\ StoreIdle

AdaptationFactors ==
    /\ pc = "personal"
    /\ called.name = "calculateAdaptationFactors"
    /\ returned' = calculateAdaptationFactors(profile)
    /\ pc' = "returned"
    /\ UNCHANGED <<called, catalog, firstCall, agentIds, handlerVars, selectVars,
                   scoreVars, storeVars>>

GrowthPlan ==
    /\ pc = "personal"
    /\ called.name = "generatePersonalizedGrowthPlan"
    /\ returned' = generatePersonalizedGrowthPlan(profile, market)
    /\ pc' = "returned"
    /\ UNCHANGED <<called, catalog, firstCall, agentIds, handlerVars, selectVars,
                   scoreVars, storeVars>>

MarketPosition ==
    /\ pc = "personal"
    /\ called.name = "generateMarketPosition"
    /\ returned' = generateMarketPosition(profile, market, fameScore)
    /\ pc' = "returned"
    /\ UNCHANGED <<called, catalog, firstCall, agentIds, handlerVars, selectVars,
                   scoreVars, storeVars>>

Recommendations ==
    /\ pc = "personal"
    /\ called.name = "generatePersonalizedRecommendations"
    /\ returned' = generatePersonalizedRecommendations(
                        market, profile, calculateAdaptationFactors(profile))
    /\ pc' = "returned"
    /\ UNCHANGED <<called, catalog, firstCall, agentIds, handlerVars, selectVars,
                   scoreVars, storeVars>>

PersonalNext ==
    \/ AdaptationFactors
    \/ GrowthPlan
    \/ MarketPosition
    \/ Recommendations

SpecPersonal ==
    PersonalInit /\ [][PersonalNext]_vars

\* ----------------------------------------------- generateUniqueAgentId alone

IdInit ==
    /\ agentIds = <<>>
    /\ called = [name |-> "none"]
    /\ returned = NoReturn
    /\ catalog = <<>>
    /\ firstCall = [call |-> [name |-> "none"], score |-> 0, repeated |-> FALSE]
    /\ pc = "ids"
    /\ env = {}
    /\ HandlerIdle
    /\ SelectIdle
    /\ StoreIdle
    /\ ScoreIdle

\* A call of generateUniqueAgentId: now is what Date.now() returns, entropy
\* what crypto.randomBytes(16) returns; the clock does not run backwards.
GenerateAgentId(userId, now, entropy) ==
    /\ pc = "ids"
    /\ Len(agentIds) < MaxIds
    /\ agentIds # <<>> => now >= agentIds[Len(agentIds)].timestamp
    /\ agentIds' = Append(agentIds, generateUniqueAgentId(userId, now, entropy))
    /\ UNCHANGED <<pc, called, returned, catalog, firstCall, handlerVars,
                   selectVars, scoreVars, storeVars>>

IdNext ==
    \E userId \in {"user-1", "user-2"}, now \in {1, 2}, entropy \in RandomBytes :
        GenerateAgentId(userId, now, entropy)

SpecAgentId ==
    IdInit /\ [][IdNext]_vars

\* ------------------------------------------- getMonetizationOpportunities

\* A requirement text is split at its first run of digits: the text before
\* it, the run's value (NaN when the text has no digit) and the text after.
\* Of each opportunity the fields the function reads are kept.
MONETIZATION_OPPORTUNITIES ==
    <<[type |-> "YouTube AdSense",
       requirements |-> <<[before |-> "", digits |-> 1, after |-> ",000 subscribers"],
                          [before |-> "", digits |-> 4,
                           after |-> ",000 watch hours in 12 months"]>>,
       difficulty |-> "medium", currentDemand |-> "high"],
      [type |-> "Sponsorships & Brand Deals",
       requirements |-> <<[before |-> "", digits |-> 50, after |-> "K+ followers"],
                          [before |-> "Established niche", digits |-> NaN, after |-> ""],
                          [before |-> "Engaged audience", digits |-> NaN, after |-> ""]>>,
       difficulty |-> "hard", currentDemand |-> "high"],
      [type |-> "Affiliate Marketing",
       requirements |-> <<[before |-> "", digits |-> 10, after |-> "K+ followers"],
                          [before |-> "Content marketing skills", digits |-> NaN,
                           after |-> ""]>>,
       difficulty |-> "easy", currentDemand |-> "high"],
      [type |-> "Digital Products (Courses/Templates)",
       requirements |-> <<[before |-> "Expertise", digits |-> NaN, after |-> ""],
                          [before |-> "", digits |-> 20, after |-> "K+ followers"],
                          [before |-> "Email list", digits |-> NaN, after |-> ""]>>,
       difficulty |-> "hard", currentDemand |-> "high"],
      [type |-> "Patreon/Membership",
       requirements |-> <<[before |-> "Consistent content", digits |-> NaN, after |-> ""],
                          [before |-> "", digits |-> 30, after |-> "K+ followers"]>>,
       difficulty |-> "medium", currentDemand |-> "medium"],
      [type |-> "Consulting & Coaching",
       requirements |-> <<[before |-> "Proven expertise", digits |-> NaN, after |-> ""],
                          [before |-> "Portfolio", digits |-> NaN, after |-> ""],
                          [before |-> "", digits |-> 50, after |-> "K+ followers"]>>,
       difficulty |-> "hard", currentDemand |-> "medium"]>>

\* demandScore[opp.currentDemand] + difficultyScore[opp.difficulty]
RelevanceScore(opp) ==
    (CASE opp.currentDemand = "high" -> 3
       [] opp.currentDemand = "medium" -> 2
       [] OTHER -> 1)
    + (CASE opp.difficulty = "easy" -> 3
         [] opp.difficulty = "medium" -> 2
         [] OTHER -> 1)

RECURSIVE SortByRelevance(_)
\* Array.prototype.sort with (a, b) => scoreB - scoreA: highest score first,
\* equal scores in their former order.
SortByRelevance(opps) ==
    IF opps = <<>> THEN <<>>
    ELSE LET rest == SortByRelevance(Tail(opps))
             ahead == {i \in 1..Len(rest) :
                        RelevanceScore(rest[i]) > RelevanceScore(Head(opps))}
         IN  SubSeq(rest, 1, Cardinality(ahead)) \o <<Head(opps)>>
             \o SubSeq(rest, Cardinality(ahead) + 1, Len(rest))

\* The filter keeps an opportunity unless some requirement that includes
\* "follower" has a run of digits whose parseInt exceeds followers.
getMonetizationOpportunities(followers) ==
    SortByRelevance(
        SelectSeq(MONETIZATION_OPPORTUNITIES,
                  LAMBDA opp :
                    ~\E i \in 1..Len(opp.requirements) :
                        LET req == opp.requirements[i]
                        IN  /\ \/ Includes(req.before, "follower")
                               \/ Includes(req.after, "follower")
                            /\ req.digits # NaN
                            /\ followers < req.digits))

\* ----------------------------------- market research functions, each alone

\* A call of parseAIResponse with any text of up to MaxText pieces, of the
\* compiler's try block with the texts its four calls returned, or of
\* getMonetizationOpportunities with a follower count.
ParseInit ==
    /\ \/ \E n \in 0..MaxText :
            \E text \in [1..n -> {"txt", "{", "}", "trends:[A,B]",
                                  "top_creators:[null]"}] :
                called = [name |-> "parseAIResponse", text |-> text]
       \/ \E r \in [Topics -> 1..6] :
            called = [name |-> "compileMarketResearchData",
                      texts |-> [t \in Topics |-> ResponseText(r[t])]]
       \/ \E followers \in 0..50 \cup {9999, 10000, 19999, 20000, 29999, 30000,
                                       49999, 50000, 250000} :
            called = [name |-> "getMonetizationOpportunities",
                      followers |-> followers]
    /\ returned = NoReturn
    /\ catalog = <<>>
    /\ firstCall = [call |-> [name |-> "none"], score |-> 0, repeated |-> FALSE]
    /\ agentIds = <<>>
    /\ pc = "parse"
    /\ env = {}
    /\ HandlerIdle
    /\ SelectIdle
    /\ StoreIdle
    /\ ScoreIdle

ParseResponse ==
    /\ pc = "parse"
    /\ called.name = "parseAIResponse"
    /\ returned' = parseAIResponse(called.text)
    /\ pc' = "returned"
    /\ UNCHANGED <<called, catalog, firstCall, agentIds, handlerVars, selectVars,
                   scoreVars, storeVars>>

\* The compiler after its four calls have returned called.texts.
CompileResponses ==
    /\ pc = "parse"
    /\ called.name = "compileMarketResearchData"
    /\ returned' = CompileTry(called.texts, ProfileA.followers)
    /\ pc' = "returned"
    /\ UNCHANGED <<called, catalog, firstCall, agentIds, handlerVars, selectVars,
                   scoreVars, storeVars>>

MonetizationOpportunities ==
    /\ pc = "parse"
    /\ called.name = "getMonetizationOpportunities"
    /\ returned' = getMonetizationOpportunities(called.followers)
    /\ pc' = "returned"
    /\ UNCHANGED <<called, catalog, firstCall, agentIds, handlerVars, selectVars,
                   scoreVars, storeVars>>

ParseNext ==
    \/ ParseResponse
    \/ CompileResponses
    \/ MonetizationOpportunities

SpecParse ==
    ParseInit /\ [][ParseNext]_vars

\* ------------------------------------- createPurchase and updatePurchase

Null ==
    [null |-> TRUE]

\* A faulty test: every error counts as a network error.
isCORSOrNetworkErrorAny(error) ==
    error # Null

\* isCORSOrNetworkError: error?.message?.toLowerCase() || "" includes one of
\* the four words.
isCORSOrNetworkError(error) ==
    LET message == IF error = Null THEN "" ELSE ToLowerCase(error.message)
    IN  \/ Includes(message, "failed to fetch")
        \/ Includes(message, "cors")
        \/ Includes(message, "network")
        \/ Includes(message, "connection")

\* One call of createPurchase or updatePurchase, with the client configured
\* or not.
PurchaseInit ==
    /\ called \in {[name |-> "createPurchase"], [name |-> "updatePurchase"]}
    /\ supabase \in {[configured |-> c, rows |-> 0] : c \in BOOLEAN}
    /\ attempt = 0
    /\ requests = <<>>
    /\ returned = NoReturn
    /\ pc = "purchase"
    /\ userDatabase = [u \in UserIds |-> Undefined]
    /\ downloadDatabase = [u \in UserIds |-> <<>>]
    /\ accepted = [u \in UserIds |-> 0]
    /\ hookState = [data |-> "null", loading |-> FALSE, error |-> "null"]
    /\ catalog = <<>>
    /\ firstCall = [call |-> [name |-> "none"], score |-> 0, repeated |-> FALSE]
    /\ agentIds = <<>>
    /\ env = {}
    /\ HandlerIdle
    /\ SelectIdle
    /\ ScoreIdle

\* if (!supabase) return {data: null, error: {message: "Supabase not configured"}}
NotConfigured ==
    /\ pc = "purchase"
    /\ ~supabase.configured
    /\ returned' = [data |-> Null, error |-> [message |-> "Supabase not configured"]]
    /\ pc' = "returned"
    /\ UNCHANGED <<called, supabase, attempt, requests, userDatabase,
                   downloadDatabase, accepted, hookState, catalog, firstCall,
                   agentIds, handlerVars, selectVars, scoreVars>>

\* The loop body's start: the query is sent and raced against the timer.
StartAttempt ==
    /\ pc = "purchase"
    /\ supabase.configured
    /\ attempt < 3
    /\ requests' = Append(requests, [status |-> "sent", outcome |-> "pending"])
    /\ pc' = "racing"
    /\ UNCHANGED <<called, returned, supabase, attempt, userDatabase,
                   downloadDatabase, accepted, hookState, catalog, firstCall,
                   agentIds, handlerVars, selectVars, scoreVars>>

\* The database carries out the query of request k: an insert adds a row.
\* Nothing cancels a request whose race the timer has won.
ServerApplies(k) ==
    /\ requests[k].status = "sent"
    /\ requests' = [requests EXCEPT ![k].status = "applied"]
    /\ supabase' = [supabase EXCEPT !.rows =
                        IF called.name = "createPurchase" THEN @ + 1 ELSE @]
    /\ UNCHANGED <<pc, called, returned, attempt, userDatabase,
                   downloadDatabase, accepted, hookState, catalog, firstCall,
                   agentIds, handlerVars, selectVars, scoreVars>>

\* The database refuses the query of request k.
ServerRefuses(k) ==
    /\ requests[k].status = "sent"
    /\ requests' = [requests EXCEPT ![k].status = "refused"]
    /\ UNCHANGED <<pc, called, returned, supabase, attempt, userDatabase,
                   downloadDatabase, accepted, hookState, catalog, firstCall,
                   agentIds, handlerVars, selectVars, scoreVars>>

\* The network fails request k on its way to the database, or its response
\* on the way back.
NetworkFails(k) ==
    /\ requests[k].outcome = "pending"
    /\ requests[k].status \in {"sent", "applied", "refused"}
    /\ requests' = [requests EXCEPT ![k].status =
                        IF @ = "sent" THEN "unreachable" ELSE "lost"]
    /\ UNCHANGED <<pc, called, returned, supabase, attempt, userDatabase,
                   downloadDatabase, accepted, hookState, catalog, firstCall,
                   agentIds, handlerVars, selectVars, scoreVars>>

\* What the loop does once an attempt has ended in a way that allows another
\* one: the next attempt, or the return after the third.
AfterFailedAttempt(result) ==
    IF attempt = 2
    THEN /\ returned' = result
         /\ attempt' = 3
         /\ pc' = "returned"
    ELSE /\ attempt' = attempt + 1
         /\ pc' = "purchase"
         /\ UNCHANGED returned

\* The query's promise wins the race: the client library resolves it with
\* {data, error}, a failed fetch being an error whose message names it.
QuerySettles(refusal, failure) ==
    LET k == Len(requests)
        result ==
            CASE requests[k].status = "applied" ->
                    [data |-> [row |-> k], error |-> Null]
              [] requests[k].status = "refused" ->
                    [data |-> Null, error |-> [message |-> refusal]]
              [] OTHER -> [data |-> Null, error |-> [message |-> failure]]
    IN  /\ pc = "racing"
        /\ requests[k].status # "sent"
        /\ IF result.error = Null
           THEN /\ requests' = [requests EXCEPT ![k].outcome = "ok"]
                /\ returned' = result
                /\ pc' = "returned"
                /\ UNCHANGED attempt
           ELSE IF ~isCORSOrNetworkError(result.error)
           THEN /\ requests' = [requests EXCEPT ![k].outcome = "error"]
                /\ returned' = result
                /\ pc' = "returned"
                /\ UNCHANGED attempt
           ELSE /\ requests' = [requests EXCEPT ![k].outcome = "network"]
                /\ AfterFailedAttempt(
                        [data |-> Null,
                         error |-> [message |-> "Failed after retries"]])
        /\ UNCHANGED <<called, supabase, userDatabase, downloadDatabase,
                       accepted, hookState, catalog, firstCall, agentIds,
                       handlerVars, selectVars, scoreVars>>

\* The 10-second timer wins the race: the catch block.
Timeout ==
    /\ pc = "racing"
    /\ requests' = [requests EXCEPT ![Len(requests)].outcome = "timeout"]
    /\ AfterFailedAttempt([data |-> Null,
                           error |-> [message |-> "Request timeout"]])
    /\ UNCHANGED <<called, supabase, userDatabase, downloadDatabase,
                   accepted, hookState, catalog, firstCall, agentIds,
                   handlerVars, selectVars, scoreVars>>

PurchaseNext ==
    \/ NotConfigured
    \/ StartAttempt
    \/ \E k \in 1..Len(requests) : ServerApplies(k)
    \/ \E k \in 1..Len(requests) : ServerRefuses(k)
    \/ \E k \in 1..Len(requests) : NetworkFails(k)
    \/ \E refusal \in {"duplicate key value violates unique constraint",
                       "JWT expired"},
          failure \in {"TypeError: Failed to fetch", "Network request failed"} :
            QuerySettles(refusal, failure)
    \/ Timeout

SpecPurchase ==
    PurchaseInit /\ [][PurchaseNext]_vars

\* The timers fire and the loop goes on: each await ends.
SpecPurchaseLive ==
    SpecPurchase /\ WF_vars(NotConfigured) /\ WF_vars(StartAttempt)
    /\ WF_vars(Timeout)

\* ------------------------------------------------------- payment webhook

\* Whether the answer to an insert makes the handler set saved: a response
\* with response.ok or status 201 or, for the purchases table, status 409.
\* A request has outcome "response", "timeout" (the timer won the race) or
\* "rejected" (fetch rejected).
ResponseSavesAnyDuplicate(sent) ==
    /\ sent.outcome = "response"
    /\ sent.status \in 200..299 \cup {409}

ResponseSaves(sent) ==
    /\ sent.outcome = "response"
    /\ \/ sent.status \in 200..299
       \/ sent.status = 201
       \/ sent.table = "purchases" /\ sent.status = 409

\* The statusCode and the body of the handler's responses.
WebhookResponse(statusCode, message, stored) ==
    [statusCode |-> statusCode, message |-> message, stored |-> stored]

\* One invocation: its method, its body (a JSON object, the JSON text null,
\* or text that is not JSON), with or without the Supabase credentials.
WebhookInit ==
    /\ called \in [name : {"handler"}, httpMethod : {"POST", "OPTIONS"},
                   body : {"{...}", "null", "not JSON"}]
    /\ supabase \in {[configured |-> c, rows |-> 0] : c \in BOOLEAN}
    /\ attempt = 0
    /\ requests = <<>>
    /\ returned = NoReturn
    /\ pc = "webhook"
    /\ userDatabase = [u \in UserIds |-> Undefined]
    /\ downloadDatabase = [u \in UserIds |-> <<>>]
    /\ accepted = [u \in UserIds |-> 0]
    /\ hookState = [data |-> "null", loading |-> FALSE, error |-> "null"]
    /\ catalog = <<>>
    /\ firstCall = [call |-> [name |-> "none"], score |-> 0, repeated |-> FALSE]
    /\ agentIds = <<>>
    /\ env = {}
    /\ HandlerIdle
    /\ SelectIdle
    /\ ScoreIdle

\* The handler up to its first await. Reading a field of a null paymentData
\* raises while the request is being built, inside the try block of every
\* table: no request is sent, and saved stays false.
WebhookStart ==
    /\ pc = "webhook"
    /\ IF called.httpMethod = "OPTIONS"
       THEN /\ returned' = WebhookResponse(200, "", "absent")
            /\ pc' = "returned"
            /\ UNCHANGED requests
       ELSE IF ~supabase.configured
       THEN /\ returned' = WebhookResponse(200, "OK - Supabase not configured",
                                           "absent")
            /\ pc' = "returned"
            /\ UNCHANGED requests
       ELSE IF called.body = "not JSON"
       THEN /\ returned' = WebhookResponse(500, "Webhook processing failed",
                                           "absent")
            /\ pc' = "returned"
            /\ UNCHANGED requests
       ELSE IF called.body = "null"
       THEN /\ returned' = WebhookResponse(200, "OK", "false")
            /\ pc' = "returned"
            /\ UNCHANGED requests
       ELSE /\ requests' = <<[table |-> "purchases", outcome |-> "pending",
                              status |-> 0]>>
            /\ pc' = "purchases"
            /\ UNCHANGED returned
    /\ UNCHANGED <<called, supabase, attempt, userDatabase, downloadDatabase,
                   accepted, hookState, catalog, firstCall, agentIds,
                   handlerVars, selectVars, scoreVars>>

\* The race of the pending insert ends with outcome (and status, for a
\* response): the handler goes on to its next await or to its return.
\* attempt counts the fallback tables tried.
RaceEnds(outcome, status) ==
    LET k == Len(requests)
        ended == [requests[k] EXCEPT !.outcome = outcome, !.status = status]
        tables == <<"orders", "payments", "transactions">>
        saved == ResponseSaves(ended)
    IN  /\ pc \in {"purchases", "fallback"}
        /\ IF saved \/ attempt = Len(tables)
           THEN /\ requests' = [requests EXCEPT ![k] = ended]
                /\ returned' = WebhookResponse(200, "OK",
                                               IF saved THEN "true" ELSE "false")
                /\ pc' = "returned"
                /\ UNCHANGED attempt
           ELSE /\ requests' = Append([requests EXCEPT ![k] = ended],
                                      [table |-> tables[attempt + 1],
                                       outcome |-> "pending", status |-> 0])
                /\ attempt' = attempt + 1
                /\ pc' = "fallback"
                /\ UNCHANGED returned
        /\ UNCHANGED <<called, supabase, userDatabase, downloadDatabase,
                       accepted, hookState, catalog, firstCall, agentIds,
                       handlerVars, selectVars, scoreVars>>

WebhookNext ==
    \/ WebhookStart
    \/ \E status \in {200, 201, 204, 400, 409, 500} : RaceEnds("response", status)
    \/ \E outcome \in {"timeout", "rejected"} : RaceEnds(outcome, 0)

SpecWebhook ==
    WebhookInit /\ [][WebhookNext]_vars

\* ------------------------------------------------------- user analytics

\* A faulty store: the user's list is set to the new record alone.
DownloadsAfterSet(db, userId, downloadRecord) ==
    [db EXCEPT ![userId] = <<downloadRecord>>]

\* downloadDatabase after the record was pushed on the user's list; a user
\* without an entry has the empty list.
DownloadsAfter(db, userId, downloadRecord) ==
    [db EXCEPT ![userId] = Append(@, downloadRecord)]

\* Both maps are empty when the server starts.
CaptureInit ==
    /\ userDatabase = [u \in UserIds |-> Undefined]
    /\ downloadDatabase = [u \in UserIds |-> <<>>]
    /\ accepted = [u \in UserIds |-> 0]
    /\ called = [name |-> "none"]
    /\ returned = NoReturn
    /\ pc = "analytics"
    /\ supabase = [configured |-> FALSE, rows |-> 0]
    /\ attempt = 0
    /\ requests = <<>>
    /\ hookState = [data |-> "null", loading |-> FALSE, error |-> "null"]
    /\ catalog = <<>>
    /\ firstCall = [call |-> [name |-> "none"], score |-> 0, repeated |-> FALSE]
    /\ agentIds = <<>>
    /\ env = {}
    /\ HandlerIdle
    /\ SelectIdle
    /\ ScoreIdle

\* POST /api/user-analytics/quiz with body {quizData}. The handler awaits
\* nothing, so it runs from start to end without another handler between.
handleCaptureQuizData(quizData) ==
    /\ pc = "analytics"
    /\ called' = [name |-> "handleCaptureQuizData", quizData |-> quizData]
    /\ IF \/ quizData = Undefined
          \/ quizData.userId = ""
          \/ quizData.email = ""
          \/ quizData.name = ""
       THEN /\ returned' = [status |-> 400, success |-> FALSE,
                            userId |-> IF quizData = Undefined \/ quizData.userId = ""
                                       THEN "unknown" ELSE quizData.userId,
                            message |-> "Missing required fields: userId, email, name"]
            /\ UNCHANGED userDatabase
       ELSE /\ userDatabase' = [userDatabase EXCEPT ![quizData.userId] = quizData]
            /\ returned' = [status |-> 200, success |-> TRUE,
                            userId |-> quizData.userId,
                            message |-> "Quiz data captured successfully"]
    /\ UNCHANGED <<pc, downloadDatabase, accepted, supabase, attempt, requests,
                   hookState, catalog, firstCall, agentIds, handlerVars,
                   selectVars, scoreVars>>

\* POST /api/user-analytics/download
handleCaptureDownload(userId, downloadType, fileName) ==
    /\ pc = "analytics"
    /\ called' = [name |-> "handleCaptureDownload", userId |-> userId,
                  downloadType |-> downloadType, fileName |-> fileName]
    /\ IF userId = "" \/ downloadType = "" \/ fileName = ""
       THEN /\ returned' = [status |-> 400, success |-> FALSE,
                            downloadId |-> "unknown",
                            message |-> "Missing required fields: userId, downloadType, fileName"]
            /\ UNCHANGED <<downloadDatabase, accepted>>
       ELSE /\ Len(downloadDatabase[userId]) < MaxRecords
            /\ downloadDatabase' =
                    DownloadsAfter(downloadDatabase, userId,
                                   [userId |-> userId, downloadType |-> downloadType,
                                    fileName |-> fileName])
            /\ accepted' = [accepted EXCEPT ![userId] = @ + 1]
            /\ returned' = [status |-> 200, success |-> TRUE,
                            downloadId |-> "download_" \o userId,
                            message |-> "Download tracked successfully"]
    /\ UNCHANGED <<pc, userDatabase, supabase, attempt, requests, hookState,
                   catalog, firstCall, agentIds, handlerVars, selectVars,
                   scoreVars>>

\* GET /api/user-analytics/:userId
handleGetUserAnalytics(userId) ==
    /\ pc = "analytics"
    /\ called' = [name |-> "handleGetUserAnalytics", userId |-> userId]
    /\ returned' =
            IF userId = ""
            THEN [status |-> 400, success |-> FALSE,
                  message |-> "userId is required"]
            ELSE IF userDatabase[userId] = Undefined
            THEN [status |-> 404, success |-> FALSE,
                  message |-> "No data found for user: " \o userId]
            ELSE [status |-> 200, success |-> TRUE,
                  analytics |->
                    [userId |-> userId, totalQuizzes |-> 1,
                     totalDownloads |-> Len(downloadDatabase[userId]),
                     quizHistory |-> <<userDatabase[userId]>>,
                     downloadHistory |-> downloadDatabase[userId]],
                  message |-> "User analytics retrieved successfully"]
    /\ UNCHANGED <<pc, userDatabase, downloadDatabase, accepted, supabase,
                   attempt, requests, hookState, catalog, firstCall, agentIds,
                   handlerVars, selectVars, scoreVars>>

CaptureNext ==
    \/ \E quizData \in {Undefined}
                       \cup [userId : UserIds \cup {""}, email : {"", "a@b.c"},
                             name : {"", "Ann"}, niche : {"Gaming", "Beauty"}] :
            handleCaptureQuizData(quizData)
    \/ \E userId \in UserIds \cup {""}, downloadType \in {"", "pdf"},
          fileName \in {"", "kit.pdf"} :
            handleCaptureDownload(userId, downloadType, fileName)
    \/ \E userId \in UserIds \cup {""} : handleGetUserAnalytics(userId)

SpecCapture ==
    CaptureInit /\ [][CaptureNext]_vars

\* ---------------------------------------------------- useAIAgentAnalysis

\* The hook after its first render: useState(null), useState(false),
\* useState(null); no analyze call has been made.
HookInit ==
    /\ hookState = [data |-> "null", loading |-> FALSE, error |-> "null"]
    /\ requests = <<>>
    /\ called = [name |-> "none"]
    /\ returned = NoReturn
    /\ pc = "hook"
    /\ supabase = [configured |-> FALSE, rows |-> 0]
    /\ attempt = 0
    /\ userDatabase = [u \in UserIds |-> Undefined]
    /\ downloadDatabase = [u \in UserIds |-> <<>>]
    /\ accepted = [u \in UserIds |-> 0]
    /\ catalog = <<>>
    /\ firstCall = [call |-> [name |-> "none"], score |-> 0, repeated |-> FALSE]
    /\ agentIds = <<>>
    /\ env = {}
    /\ HandlerIdle
    /\ SelectIdle
    /\ ScoreIdle

\* analyze(request) up to its await: setLoading(true), setError(null), and
\* the fetch is sent. Nothing keeps a second call from starting while the
\* first is in flight.
analyze ==
    /\ pc = "hook"
    /\ Len(requests) < MaxCalls
    /\ requests' = Append(requests, [status |-> "inflight"])
    /\ hookState' = [hookState EXCEPT !.loading = TRUE, !.error = "null"]
    /\ UNCHANGED <<pc, called, returned, supabase, attempt, userDatabase,
                   downloadDatabase, accepted, catalog, firstCall, agentIds,
                   handlerVars, selectVars, scoreVars>>

\* The rest of call c once its fetch has settled: with an ok response,
\* setData; with a response that is not ok or a rejected fetch, setError in
\* the catch block; and setLoading(false) in the finally block either way.
FetchSettles(c, ok) ==
    /\ pc = "hook"
    /\ requests[c].status = "inflight"
    /\ requests' = [requests EXCEPT ![c].status =
                        IF ok THEN "fulfilled" ELSE "rejected"]
    /\ hookState' =
            IF ok
            THEN [hookState EXCEPT !.data = "response " \o ToString(c),
                                   !.loading = FALSE]
            ELSE [hookState EXCEPT !.error = "error " \o ToString(c),
                                   !.loading = FALSE]
    /\ UNCHANGED <<pc, called, returned, supabase, attempt, userDatabase,
                   downloadDatabase, accepted, catalog, firstCall, agentIds,
                   handlerVars, selectVars, scoreVars>>

HookNext ==
    \/ analyze
    \/ \E c \in 1..Len(requests), ok \in BOOLEAN : FetchSettles(c, ok)

SpecHook ==
    HookInit /\ [][HookNext]_vars

\* ------------------------------------------------------------------ claims

ValidRequest ==
    request.userId # "" /\ request.creatorProfile # Undefined

ProvidersConfigured ==
    Len(getAvailableProviders(env)) > 0

\* compileMarketResearchData has returned.
Compiled ==
    marketResearch # NoResearch

C2_ResearchNeverEmpty ==
    Compiled =>
        /\ Len(marketResearch.trends) > 0
        /\ Len(marketResearch.industryInsights) > 0
        /\ Len(marketResearch.monetizationOpportunities) >= 1

\* C3 as stated: when all four calls have failed, the returned trends are the
\* four-item default list.
C3_AllFailedFourTrends ==
    (\A t \in Topics : calls[t].status = "failed")
        => marketResearch.trends = DefaultTrends

\* C3 amended: when all four calls have failed, the returned trends are the
\* three-item list of the compiler's catch block.
C3_AllFailedThreeTrends ==
    (\A t \in Topics : calls[t].status = "failed")
        => marketResearch.trends =
             <<"Short-form video content is dominating engagement",
               "Authenticity over production quality resonates better",
               "Community engagement drives algorithmic visibility">>

\* C3 witness: every call has failed and the handler has answered.
C3_Witness ==
    /\ \A t \in Topics : calls[t].status = "failed"
    /\ pc = "done"
    /\ Len(marketResearch.trends) = 3

\* The number of times provider x occurs in list l.
Count(l, x) ==
    Cardinality({i \in 1..Len(l) : l[i] = x})

HasName(l, name) ==
    \E i \in 1..Len(l) : l[i].name = name

\* C4: for a non-empty list selectBestProvider returns a member of the list:
\* the one named openai if there is one, else the one named anthropic, else
\* the one named google, else the first element; and with a preferred
\* provider in the list every reordering of the list gives the same result.
C4_SelectByPreference ==
    (pc = "selected" /\ Len(providerList) > 0) =>
        /\ \E i \in 1..Len(providerList) : providerList[i] = selected
        /\ IF HasName(providerList, "openai") THEN selected.name = "openai"
           ELSE IF HasName(providerList, "anthropic") THEN selected.name = "anthropic"
           ELSE IF HasName(providerList, "google") THEN selected.name = "google"
           ELSE selected = providerList[1]
        /\ (\E name \in {"openai", "anthropic", "google"} : HasName(providerList, name))
            => \A other \in ProviderLists :
                    (\A x \in ProviderPool : Count(other, x) = Count(providerList, x))
                        => selectBestProvider(other) = selected

\* C4 witness: anthropic is chosen from behind an unknown provider and google.
C4_Witness ==
    /\ pc = "selected"
    /\ providerList = <<OtherProvider, Google, Anthropic>>
    /\ selected = Anthropic

\* C5: with no provider configured a well-formed request ends with the one
\* configuration error and nothing else: no agent id, no research call, no
\* retry, no research content, no analysis.
C5_NoProviderIsConfigurationError ==
    ~ProvidersConfigured =>
        /\ (pc = "done" /\ ValidRequest) => responses = <<NoProviderResponse>>
        /\ Len(responses) <= 1
        /\ \A i \in 1..Len(responses) : responses[i].status # 200
        /\ agentId = NoAgentId
        /\ \A t \in Topics : issued[t] = 0 /\ calls[t] = NoCall
        /\ marketResearch = NoResearch
        /\ analysis = NoAnalysis

\* C5 witness: a well-formed request was answered with the configuration
\* error.
C5_Witness ==
    /\ ~ProvidersConfigured
    /\ ValidRequest
    /\ pc = "done"
    /\ responses = <<NoProviderResponse>>

AnalysisResultFields ==
    {"agentId", "userId", "analysis", "marketResearch", "growthPlan",
     "pdfUrl", "generatedAt"}

\* C6: a well-formed request with a provider configured gets no response
\* while it is handled and exactly one when it is done, and that one is the
\* complete AnalysisResult of the request, never an error, however the
\* provider calls and the PDF renderer end.
C6_OneCompleteResult ==
    (ValidRequest /\ ProvidersConfigured) =>
        /\ pc # "done" => responses = <<>>
        /\ pc = "done" =>
            /\ Len(responses) = 1
            /\ responses[1].status = 200
            /\ DOMAIN responses[1].body = AnalysisResultFields
            /\ responses[1].body.agentId = agentId
            /\ responses[1].body.userId = request.userId
            /\ responses[1].body.marketResearch = marketResearch
            /\ DOMAIN responses[1].body.growthPlan
                    = {"nextMonth", "nextQuarter", "nextYear"}
            /\ "fameScore" \in DOMAIN responses[1].body.analysis

\* C6 witness: all four calls returned, one of them text that does not parse,
\* the renderer failed, and the request was answered with a result.
C6_Witness ==
    /\ pc = "done"
    /\ \A t \in Topics : calls[t].status = "ok"
    /\ values["position"] = 1
    /\ rendered = "failed"
    /\ Len(responses) = 1
    /\ responses[1].status = 200

\* C7: when the PDF renderer fails, the response is the successful result
\* with every field as it was computed before rendering and pdfUrl
\* undefined.
C7_RenderFailureKeepsResult ==
    [][(pc = "pdf" /\ rendered' = "failed") =>
            /\ Len(responses') = 1
            /\ responses'[1].status = 200
            /\ DOMAIN responses'[1].body = DOMAIN analysis
            /\ responses'[1].body.pdfUrl = UndefinedUrl
            /\ \A f \in DOMAIN analysis \ {"pdfUrl"} :
                    responses'[1].body[f] = analysis[f]]_vars

\* C7 witness: the renderer failed after a research call had failed, and the
\* result went out without a pdfUrl.
C7_Witness ==
    /\ pc = "done"
    /\ rendered = "failed"
    /\ \E t \in Topics : calls[t].status = "failed"
    /\ Len(responses) = 1
    /\ responses[1].status = 200
    /\ responses[1].body.pdfUrl = UndefinedUrl

\* C8: for followers and monthlyViews in 0..10,000,000, engagementRate in
\* [0,1], market research with or without insights and any fingerprint, the
\* Fame Score is an integer in 0..100.
C8_FameScoreInRange ==
    pc = "scored" => fameScore \in 0..100

\* C8 witness: the score of the largest profile was computed.
C8_Witness ==
    /\ pc = "scored"
    /\ profile.followers = 10000000
    /\ profile.engagementPct = 100
    /\ profile.monthlyViews = 10000000
    /\ Len(market.industryInsights) > 0
    /\ fameScore > 0

\* C9: with the market data and the fingerprint fixed, raising followers,
\* engagementRate or monthlyViews alone never lowers the Fame Score, and the
\* score is the same for all followers >= 100,000.
C9_FameScoreMonotone ==
    pc = "scored" =>
        /\ \A f \in FollowerValues :
            /\ f >= profile.followers =>
                calculateUniqueFameScore([profile EXCEPT !.followers = f],
                                         market, personality) >= fameScore
            /\ (f >= 100000 /\ profile.followers >= 100000) =>
                calculateUniqueFameScore([profile EXCEPT !.followers = f],
                                         market, personality) = fameScore
        /\ \A e \in EngagementValues :
            e >= profile.engagementPct =>
                calculateUniqueFameScore([profile EXCEPT !.engagementPct = e],
                                         market, personality) >= fameScore
        /\ \A v \in ViewValues :
            v >= profile.monthlyViews =>
                calculateUniqueFameScore([profile EXCEPT !.monthlyViews = v],
                                         market, personality) >= fameScore

\* C9 witness: a score at the follower cap, where more followers are on the
\* grid and fewer give a lower score.
C9_Witness ==
    /\ pc = "scored"
    /\ profile.followers = 100000
    /\ calculateUniqueFameScore([profile EXCEPT !.followers = 50000],
                                market, personality) < fameScore
    /\ calculateUniqueFameScore([profile EXCEPT !.followers = 10000000],
                                market, personality) = fameScore

\* C10: for a fixed profile and fixed market data the scores of any two
\* fingerprints differ by at most 5; the fingerprint's bonus is an integer
\* from 1 to 5 and is all of the score that depends on the fingerprint.
C10_FingerprintVariance ==
    pc = "scored" =>
        /\ fingerprintBonus(personality) \in 1..5
        /\ \A other \in Fingerprints :
            LET score == calculateUniqueFameScore(profile, market, other)
            IN  /\ score - fameScore <= 5
                /\ fameScore - score <= 5
                /\ score - fingerprintBonus(other)
                     = fameScore - fingerprintBonus(personality)

\* C10 witness: a score whose fingerprint has the largest bonus, four points
\* above the score the same inputs get with the smallest one.
C10_Witness ==
    /\ pc = "scored"
    /\ fingerprintBonus(personality) = 5
    /\ \E other \in Fingerprints :
            calculateUniqueFameScore(profile, market, other) = fameScore - 4

Returned(name) ==
    pc = "returned" /\ called.name = name

\* x <= n for a rational x and an integer n.
RatLE(x, n) ==
    x.num <= n * x.den

\* C11: calculateAdaptationFactors returns riskTolerance, contentQuality and
\* communityEngagement each within [1,10], for every non-negative followers
\* and engagementRate, zero and very large values included.
C11_FactorsInRange ==
    Returned("calculateAdaptationFactors") =>
        /\ RatGE(returned.riskTolerance, 1) /\ RatLE(returned.riskTolerance, 10)
        /\ RatGE(returned.contentQuality, 1) /\ RatLE(returned.contentQuality, 10)
        /\ RatGE(returned.communityEngagement, 1)
        /\ RatLE(returned.communityEngagement, 10)

\* The factors of a profile with very large followers and engagementRate
\* have been computed and are held at 10.
C11_Witness ==
    /\ Returned("calculateAdaptationFactors")
    /\ profile.followers = 10000000
    /\ profile.engagementPct = 1000000
    /\ returned.riskTolerance = Rat(10 * 150000, 150000)
    /\ returned.contentQuality = Rat(10 * 100, 100)

\* C12: generatePersonalizedGrowthPlan returns nextMonth, nextQuarter and
\* nextYear lists of exactly 4 entries each, for every profile and every
\* market-research value.
C12_PlanListsOfFour ==
    Returned("generatePersonalizedGrowthPlan") =>
        /\ DOMAIN returned = {"nextMonth", "nextQuarter", "nextYear"}
        /\ Len(returned.nextMonth) = 4
        /\ Len(returned.nextQuarter) = 4
        /\ Len(returned.nextYear) = 4

\* A plan has been made for a creator below 50,000 followers with little
\* engagement, from market research with no trends, insights, opportunities
\* or competitors of its own.
C12_Witness ==
    /\ Returned("generatePersonalizedGrowthPlan")
    /\ profile.followers = 49999
    /\ profile.engagementPct = 0
    /\ market.industryInsights = <<>>
    /\ market.monetizationOpportunities = <<>>
    /\ returned.nextQuarter[1] = "Build media kit and start approaching micro-brands"
    /\ returned.nextQuarter[2] = "Scale to 59999+ followers through consistency"

ViabilityCalled ==
    pc = "catalog" /\ called.name = "calculateCommercialViability"

\* C13: calculateCommercialViability with a productId that is not in the
\* catalog returns the stub, with marketDemand "low" and commercialScore 0,
\* for every downloadCount and engagement.
C13_UnknownProductIsStub ==
    (ViabilityCalled /\ called.productId \notin DOMAIN PRODUCT_VIABILITY_DATABASE) =>
        /\ returned.marketDemand = "low"
        /\ returned.commercialScore = 0

\* C14: for a productId in the catalog the returned commercialScore is
\* min(100, base + 5 above 100 downloads + 5 above 500 downloads + 5 above
\* 0.7 engagement), the limits themselves earning nothing, and every other
\* field equals the catalog entry.
C14_AdjustedScore ==
    (ViabilityCalled /\ called.productId \in DOMAIN PRODUCT_VIABILITY_DATABASE) =>
        LET entry == PRODUCT_VIABILITY_DATABASE[called.productId]
            bonuses == Cardinality({n \in {100, 500} : called.downloadCount > n})
                       + Cardinality({n \in {70} : called.userEngagement > n})
            total == entry.commercialScore + 5 * bonuses
        IN  /\ returned.commercialScore = IF total > 100 THEN 100 ELSE total
            /\ DOMAIN returned = DOMAIN entry
            /\ \A f \in DOMAIN entry \ {"commercialScore"} : returned[f] = entry[f]

\* A catalog product called with exactly 500 downloads and engagement 0.7
\* earned the first download bonus only.
C14_Witness ==
    /\ ViabilityCalled
    /\ called.productId = "fame-score-report"
    /\ called.downloadCount = 500
    /\ called.userEngagement = 70
    /\ returned.commercialScore = 97
    /\ returned.name = "Fame Score Report (Premium)"

\* C15: after any sequence of calculateCommercialViability and
\* generateCommercialReport calls every catalog entry's commercialScore is
\* as it was, and a call repeated with the arguments of the first call
\* returns the score the first call returned.
C15_CatalogUnchanged ==
    pc = "catalog" =>
        /\ DOMAIN catalog = DOMAIN PRODUCT_VIABILITY_DATABASE
        /\ \A id \in DOMAIN catalog :
                catalog[id].commercialScore
                    = PRODUCT_VIABILITY_DATABASE[id].commercialScore
        /\ (ViabilityCalled /\ called = firstCall.call) =>
                returned.commercialScore = firstCall.score

\* The first call earned every bonus and was repeated after other calls.
C15_Witness ==
    /\ ViabilityCalled
    /\ firstCall.repeated
    /\ called = firstCall.call
    /\ called.productId = "analytics-tracker"
    /\ called.downloadCount = 501
    /\ called.userEngagement = 71
    /\ returned.commercialScore = 94
    /\ catalog["analytics-tracker"].commercialScore = 79

\* C16: when the selected provider's research call fails and another
\* provider is configured, the call is tried again with the next provider;
\* the canned data is returned only after a call to every configured
\* provider has failed.
C16_FallbackAfterEveryProvider ==
    (Compiled /\ \E t \in Topics : calls[t].status = "failed") =>
        /\ \A i \in 1..Len(getAvailableProviders(env)) :
                \E t \in Topics :
                    /\ calls[t].provider = getAvailableProviders(env)[i].name
                    /\ calls[t].status = "failed"
        /\ Len(getAvailableProviders(env)) >= 2 =>
                \E t \in Topics : issued[t] >= 2

\* C17: when all four research calls have succeeded, in whatever order they
\* completed, each text is bound to the topic of its own call, and the
\* returned market research is what the compiler builds from the four texts
\* by topic and the follower count.
C17_ResponsesBoundToTopics ==
    (Compiled /\ \A t \in Topics : calls[t].status = "ok") =>
        /\ \A t \in Topics : values[t] = calls[t].text
        /\ marketResearch =
                CompileTry([t \in Topics |-> ResponseText(calls[t].text)],
                           request.creatorProfile.followers)

\* Four calls returned four different kinds of text, and each part of the
\* result comes from the text of its own topic.
C17_Witness ==
    /\ Compiled
    /\ \A t \in Topics : calls[t].status = "ok"
    /\ calls["position"].text = 3
    /\ calls["monetization"].text = 2
    /\ calls["competitors"].text = 1
    /\ calls["trends"].text = 4
    /\ marketResearch.trends = <<"authenticity wins", "Trend C">>
    /\ marketResearch.industryInsights = <<>>
    /\ marketResearch.monetizationOpportunities[1].type = "Online courses"
    /\ marketResearch.competitorAnalysis.topCompetitors = DefaultCompetitors

\* C18: any two calls of generateUniqueAgentId return distinct agent ids,
\* calls with the same userId within the same millisecond included.
C18_AgentIdsDistinct ==
    \A i, j \in 1..Len(agentIds) : i # j => agentIds[i] # agentIds[j]

\* The tier sentence the claim gives for a fame score.
TierSentence(score, niche) ==
    "You are "
    \o (CASE score < 40 -> "an EMERGING"
          [] score >= 40 /\ score <= 59 -> "a GROWING"
          [] score >= 60 /\ score <= 79 -> "an ESTABLISHED"
          [] score >= 80 -> "a TOP TIER")
    \o " creator in the " \o niche \o " space"

\* The comparison sentence the claim gives for a follower count and the
\* first competitor's.
ComparisonSentence(followers, top) ==
    IF followers >= top
    THEN "Your reach exceeds current market leaders. You're positioned for premium brand partnerships."
    ELSE IF 2 * followers >= top
    THEN "You're in the competitive tier. Differentiation and consistency are your keys to breakthrough."
    ELSE "You're in a high-growth segment. Focus on niche authority building before scaling."

\* C19: for every market research the compiler returns,
\* generateMarketPosition returns exactly one tier sentence chosen by the
\* fame score followed by exactly one comparison sentence chosen by the
\* followers against the first competitor's.
C19_TierThenComparison ==
    Returned("generateMarketPosition") =>
        /\ Len(returned) = 2
        /\ returned[1] = TierSentence(fameScore, profile.niche)
        /\ returned[2] = ComparisonSentence(
                profile.followers,
                market.competitorAnalysis.topCompetitors[1].followers)

\* The first string of each of the five rules, in table order.
RuleFirstStrings ==
    <<"Your community engagement is strong. Leverage this to launch exclusive membership programs or courses.",
      "Quality over quantity is your advantage. Target micro-brands that value authentic partnerships over reach.",
      "You have significant reach. Approach major brands directly with professional media kit and case studies.",
      "Focus on posting frequency optimization - test different posting times and content formats to boost engagement.",
      "Start with affiliate marketing of products you genuinely use - lowest barrier to entry for monetization.">>

\* The second string of each rule; the last one quotes the first
\* opportunity's earnings.
RuleSecondStrings ==
    <<"Consider starting a community Discord or Telegram for deeper connections - monetize with premium tier access.",
      "Apply for influencer networks that connect brands seeking niche creators - often offer better rates per engagement.",
      "Launch your own product line. Your audience size justifies custom merchandise or digital products.",
      "Implement call-to-action strategies consistently - encourage saves, shares, and comments in every post.",
      "Current market rate for " \o profile.niche \o " creators: "
      \o (IF market.monetizationOpportunities = <<>> THEN "varies"
          ELSE market.monetizationOpportunities[1].estimatedEarnings)
      \o ". Track performance metrics to justify rates.">>

\* Which of the five rules hold for the profile.
RuleHolds ==
    LET factors == calculateAdaptationFactors(profile)
    IN  <<RatGE(factors.communityEngagement, 7),
          profile.followers < 50000 /\ RatGE(factors.contentQuality, 6),
          profile.followers >= 100000,
          profile.challenges \in {"Low Engagement", "Engagement and Monetization"},
          profile.challenges \in {"Monetization", "Engagement and Monetization"}>>

\* C20: generatePersonalizedRecommendations returns, in table order, the two
\* strings of every rule whose predicate holds and of no other rule,
\* followed by one trend recommendation for each of the first two trends.
C20_AllMatchingRulesInOrder ==
    Returned("generatePersonalizedRecommendations") =>
        LET before(r) == Cardinality({q \in 1..r - 1 : RuleHolds[q]})
            n == before(6)
            k == IF Len(market.trends) < 2 THEN Len(market.trends) ELSE 2
        IN  /\ Len(returned) = 2 * n + k
            /\ \A r \in 1..5 :
                    IF RuleHolds[r]
                    THEN /\ returned[2 * before(r) + 1] = RuleFirstStrings[r]
                         /\ returned[2 * before(r) + 2] = RuleSecondStrings[r]
                    ELSE \A i \in 1..Len(returned) :
                            returned[i] \notin {RuleFirstStrings[r],
                                                RuleSecondStrings[r]}
            /\ \A i \in 1..k :
                    returned[2 * n + i] = TrendRecommendation(market.trends[i])

\* Four rules held at once for a creator with 100,000 followers who mentions
\* both challenges, and all eight strings and two trend recommendations
\* were returned.
C20_Witness ==
    /\ Returned("generatePersonalizedRecommendations")
    /\ profile.followers = 100000
    /\ profile.challenges = "Engagement and Monetization"
    /\ RuleHolds = <<TRUE, FALSE, TRUE, TRUE, TRUE>>
    /\ Len(returned) = 10
    /\ returned[7] = RuleFirstStrings[5]
    /\ returned[9] = "Capitalize on short-form video trend: short-form clips are rising. Increase video content frequency by 30%."

\* C21: calculateAdaptationFactors gives timeToMonetize "immediate" exactly
\* when followers >= 100,000, "short-term" exactly when 50,000 <= followers
\* < 100,000 and "long-term" exactly when followers < 50,000, whatever the
\* engagementRate.
C21_TimeToMonetizeThresholds ==
    Returned("calculateAdaptationFactors") =>
        /\ returned.timeToMonetize = "immediate" <=> profile.followers >= 100000
        /\ returned.timeToMonetize = "short-term"
             <=> (50000 <= profile.followers /\ profile.followers < 100000)
        /\ returned.timeToMonetize = "long-term" <=> profile.followers < 50000

\* The factors of a creator with exactly 50,000 followers and a very large
\* engagementRate have been computed: "short-term".
C21_Witness ==
    /\ Returned("calculateAdaptationFactors")
    /\ profile.followers = 50000
    /\ profile.engagementPct = 1000000
    /\ returned.timeToMonetize = "short-term"

HasBraceSpan(text) ==
    \E i, j \in 1..Len(text) : i < j /\ text[i] = "{" /\ text[j] = "}"

\* C22: parseAIResponse never raises. When the span from the first "{" to
\* the last "}" decodes as JSON, the decoded object is returned; when there
\* is no such span or it does not decode, {raw_analysis: the entire text} is
\* returned. A compilation whose monetization and competitor responses are
\* unparsable never takes the catch block, and one whose responses are all
\* unparsable returns the extractors' defaults.
C22_ParseNeverRaises ==
    /\ Returned("parseAIResponse") =>
        LET span == MatchBraces(called.text)
        IN  /\ DOMAIN returned = {"structured", "raw_analysis", "fields"}
            /\ ~HasBraceSpan(called.text) =>
                (~returned.structured /\ returned.raw_analysis = called.text)
            /\ (HasBraceSpan(called.text) /\ JSONValid(span)) =>
                (returned.structured /\ returned.fields = JSONParse(span))
            /\ (HasBraceSpan(called.text) /\ ~JSONValid(span)) =>
                (~returned.structured /\ returned.raw_analysis = called.text)
    /\ Returned("compileMarketResearchData") =>
        LET unparsable == {t \in Topics :
                             ~parseAIResponse(called.texts[t]).structured}
        IN  /\ {"monetization", "competitors"} \subseteq unparsable =>
                returned = CompileExtract(called.texts, ProfileA.followers)
            /\ unparsable = Topics =>
                /\ returned # CompileCatch
                /\ returned.trends = DefaultTrends
                /\ returned.industryInsights = DefaultInsights

\* A response with text around a span that does not decode (two objects,
\* so the span from the first "{" to the last "}" is not one object) was
\* parsed: the whole response is kept as raw_analysis.
C22_Witness ==
    /\ Returned("parseAIResponse")
    /\ called.text = <<"{", "}", "{", "}">>
    /\ returned.raw_analysis = called.text

C29_AtMostOneRow ==
    called.name = "createPurchase" => supabase.rows <= 1

\* An insert attempt that was accepted: a 2xx response, or a 409 response
\* from the purchases table.
AttemptAccepted(sent) ==
    /\ sent.outcome = "response"
    /\ \/ 200 <= sent.status /\ sent.status <= 299
       \/ sent.status = 409 /\ sent.table = "purchases"

\* C24: in one webhook invocation with the credentials configured the
\* inserts are attempted in the order purchases, orders, payments,
\* transactions; a table is attempted only when no earlier attempt was
\* accepted, so the attempts stop at the first accepted one; and the
\* response is HTTP 200 with stored = true exactly when some attempt was
\* accepted.
C24_InsertOrderAndStored ==
    (called.name = "handler" /\ supabase.configured) =>
        /\ Len(requests) <= 4
        /\ \A k \in 1..Len(requests) :
            /\ requests[k].table
                 = <<"purchases", "orders", "payments", "transactions">>[k]
            /\ k < Len(requests) => ~AttemptAccepted(requests[k])
            /\ k < Len(requests) => requests[k].outcome # "pending"
        /\ pc = "returned" =>
            /\ (returned.statusCode = 200 /\ returned.stored = "true")
                 <=> \E k \in 1..Len(requests) : AttemptAccepted(requests[k])
            /\ (/\ \A k \in 1..Len(requests) : ~AttemptAccepted(requests[k])
                /\ called.httpMethod = "POST"
                /\ called.body = "{...}") =>
                    /\ Len(requests) = 4
                    /\ returned = WebhookResponse(200, "OK", "false")

\* The purchases insert timed out, the orders table answered 409 (not
\* accepted there) and the payments table accepted the insert: the handler
\* answered stored = true without trying the transactions table.
C24_Witness ==
    /\ pc = "returned"
    /\ Len(requests) = 3
    /\ requests[1].outcome = "timeout"
    /\ requests[2].status = 409
    /\ requests[3].status = 201
    /\ returned = WebhookResponse(200, "OK", "true")

\* The follower count a requirement text states: "50K+ followers" states
\* 50,000; a text that does not mention followers states none.
StatedMinimum(req) ==
    IF req.after = "K+ followers" THEN 1000 * req.digits ELSE 0

\* C25: getMonetizationOpportunities(followers) returns only opportunities
\* whose stated follower requirement (10K+, 20K+, 30K+ or 50K+ followers)
\* the follower count meets, ordered by demand score plus ease score,
\* highest first.
C25_OnlyMetRequirementsInOrder ==
    Returned("getMonetizationOpportunities") =>
        /\ \A i \in 1..Len(returned) :
            \A j \in 1..Len(returned[i].requirements) :
                StatedMinimum(returned[i].requirements[j]) <= called.followers
        /\ \A i, j \in 1..Len(returned) :
            i < j => RelevanceScore(returned[i]) >= RelevanceScore(returned[j])

\* C26: whatever the order of quiz captures, download captures and
\* analytics reads, the analytics returned for a user have totalDownloads
\* equal to the number of download captures accepted for that user id, and
\* a capture answered with HTTP 400 leaves both stores as they were.
C26_DownloadsCountedPerUser ==
    /\ [](/\ (called.name = "handleGetUserAnalytics" /\ returned.status = 200) =>
                /\ returned.analytics.userId = called.userId
                /\ returned.analytics.totalDownloads = accepted[called.userId]
          /\ \A u \in UserIds :
                /\ Len(downloadDatabase[u]) = accepted[u]
                /\ \A i \in 1..Len(downloadDatabase[u]) :
                        downloadDatabase[u][i].userId = u)
    /\ [][(/\ called'.name \in {"handleCaptureQuizData", "handleCaptureDownload"}
           /\ returned'.status = 400)
            => UNCHANGED <<userDatabase, downloadDatabase>>]_vars
    /\ [][called'.name \in {"handleCaptureQuizData", "handleGetUserAnalytics"}
            => UNCHANGED <<downloadDatabase, accepted>>]_vars

\* Analytics were read for a user with two accepted downloads whose quiz
\* had been captured again in between, while the other user has one.
C26_Witness ==
    /\ called = [name |-> "handleGetUserAnalytics", userId |-> "user-1"]
    /\ returned.status = 200
    /\ returned.analytics.totalDownloads = 2
    /\ returned.analytics.quizHistory[1].niche = "Beauty"
    /\ accepted = [u \in UserIds |-> IF u = "user-1" THEN 2 ELSE 1]

\* C30: in useAIAgentAnalysis, loading is true exactly while at least one
\* analyze call is in flight, overlapping calls included; error is cleared
\* when a call starts and set only when a call fails; data is replaced only
\* by a successful response.
C30_LoadingWhileInFlight ==
    /\ [](pc = "hook" =>
            (hookState.loading
                <=> \E c \in 1..Len(requests) : requests[c].status = "inflight"))
    /\ [][Len(requests') > Len(requests) => hookState'.error = "null"]_vars
    /\ [][(pc = "hook" /\ hookState'.error \notin {hookState.error, "null"}) =>
            \E c \in 1..Len(requests) :
                /\ requests[c].status = "inflight"
                /\ requests'[c].status = "rejected"]_vars
    /\ [][(pc = "hook" /\ hookState'.data # hookState.data) =>
            \E c \in 1..Len(requests) :
                /\ requests[c].status = "inflight"
                /\ requests'[c].status = "fulfilled"]_vars

====
